---- MODULE Spec2Model ----
(***************************************************************************)
(* A model of the multi-agent workflow orchestrator:                       *)
(*   - the LangGraph feature-development and bug-fix graphs                *)
(*     (src/src/orchestrator/langgraph_orchestrator.py),                   *)
(*   - the state reducers (src/src/orchestrator/langgraph_state.py),       *)
(*   - the agent task runner and its LLM pipeline                          *)
(*     (src/src/agents/base_agent.py, src/src/utils/retry.py),             *)
(*   - starting and cancelling workflows                                   *)
(*     (src/src/orchestrator/orchestrator.py,                              *)
(*      src/src/services/orchestrator_bridge.py,                           *)
(*      src/src/api/routers/workflows.py).                                 *)
(*   - the status events sent to WebSocket subscribers                     *)
(*     (src/src/api/websocket.py),                                         *)
(*   - the extraction of files from LLM output                             *)
(*     (src/src/utils/file_writer.py),                                     *)
(*   - the truncation of prompts and the bookkeeping of run_task           *)
(*     (src/src/agents/base_agent.py),                                     *)
(*   - the pool of LLM clients (src/src/utils/llm_client_pool.py).         *)
(* Timestamps are abstracted to tokens; task ids and prompt texts are not  *)
(* modelled, because no routing decision reads them.                       *)
(***************************************************************************)
EXTENDS Integers, Sequences, FiniteSets, TLC

VARIABLES
    pc,            \* position of execute_feature_development / execute_bug_fix
    state,         \* the reduced workflow state of the thread (graph channels)
    active,        \* nodes scheduled in the current superstep, not yet finished
    stepped,       \* nodes that finished in the current superstep
    final_state,   \* the last streamed event, <<>> while there is none
    artifact,      \* what _save_workflow_results wrote, <<>> before
    returned,      \* what the execute_* call returned, <<>> before
    executed,      \* history: the node executions of the current call
    runs,          \* number of execute_* calls made so far
    call,          \* the current execute_* call: its graph, workflow_id, requirement
    checkpoint,    \* the checkpointer's latest snapshot of the thread, <<>> if none
    backend,       \* "memory" (MemorySaver) or "sqlite" (AsyncSqliteSaver)
    checkpointer_open, \* the compiled graph's checkpointer is open
    allowed,       \* the outcomes process_task can have in this behaviour
    \* Orchestrator (orchestrator.py), per request id
    orch_pc,       \* "new", "in_flight" (awaiting the engine) or "done"
    orch_object,   \* status of the WorkflowState start_workflow created
    orch_stored,   \* status of the object active_workflows holds, "absent" if none
    orch_cancelled,\* history: cancel_workflow hit the request while in flight
    \* OrchestratorBridge and the workflows router, per workflow id
    bridge_pc,     \* "none", "created", "in_flight" or "done": the _run task
    db_status,     \* status column of the workflow's row, "absent" if no row
    api_cancelled, \* history: the cancel endpoint hit the workflow in flight
    \* One agent's LLM pipeline (base_agent.py, retry.py)
    breaker,       \* the agent's CircuitBreaker: its settings and its counters
    max_retries,   \* LLM_MAX_RETRIES of the agent
    now,           \* the event loop's clock
    llm_pc,        \* "idle", "requesting" (awaiting the endpoint) or "done"
    attempt,       \* loop index of retry_with_exponential_backoff
    retry_count,   \* retry_count argument of _call_local_llama_server
    llm_calls,     \* execute_llm_task calls made so far
    contacts,      \* requests sent to the endpoint so far
    call_contacts, \* requests sent to the endpoint by the current call
    all_connection_errors, \* history: every response so far was a connection error
    llm_result,    \* what execute_llm_task returned, <<>> while it runs
    responses,     \* history: the endpoint's answers to the current call's requests
    truncation,    \* history: "none", or what _truncate_prompt_to_fit reported
    \* Callers of a function protected by the breaker (retry.py)
    bcalls,        \* per caller: "idle" or "in_flight" (inside the function)
    streak,        \* history: outcomes that were failures since the last success
    last_call,     \* history: "none", or what the breaker did with the latest call
    bhistory,      \* history: how many calls returned, raised, were rejected
    \* One call of retry_with_exponential_backoff (retry.py)
    rt_config,     \* its keyword arguments
    rt_pc,         \* "idle", "calling" (awaiting func), "sleeping" or "done"
    rt_attempt,    \* the loop variable attempt
    rt_invocations,\* history: invocations of func by the current call
    rt_outcomes,   \* history: how each invocation of the current call ended
    rt_sleeps,     \* history: the delays slept by the current call, in half seconds
    rt_result,     \* how the call ended, <<>> while it runs
    \* FileWriter.extract_file_structure (file_writer.py)
    fw_text,       \* the text handed to the extractor
    fw_pc,         \* "input" or "extracted"
    fw_files,      \* the dict the extractor returned, <<>> before
    \* OrchestratorBridge._run and ConnectionManager.broadcast, one workflow
    ws_pc,            \* where _run is
    ws_status,        \* the status of the workflow's row
    ws_connections,   \* active_connections[workflow_id]
    ws_stalled,       \* the connections whose send_json never completes
    ws_todo,          \* the connections the running broadcast has yet to take
    ws_sending,       \* the connection whose send_json is awaited, 0 if none
    ws_disconnected,  \* the set disconnected of the running broadcast
    ws_received,      \* per connection, the statuses it was sent
    \* BaseAgent._truncate_prompt_to_fit (base_agent.py)
    tp_args,          \* the arguments of the call
    tp_pc,            \* "input" or "returned"
    tp_result,        \* the tuple returned, <<>> before
    \* LLMClientPool (llm_client_pool.py)
    pool_clients,     \* self.clients: per cache key its client, 0 if none
    pool_health,      \* self.client_health: per cache key <<entry>>, or <<>>
    pool_now,         \* datetime.now(), in seconds
    pool_created,     \* history: how many clients were created
    pool_got,         \* history: the latest get_client call
    \* One agent and the run_task calls on it (base_agent.py)
    agent_status,       \* self.status
    agent_current_task, \* self.current_task, 0 for None
    agent_task_history, \* self.task_history
    agent_tasks         \* per task: where its run_task is, result and error

gvars == <<pc, state, active, stepped, final_state, artifact, returned,
           executed, runs, call, checkpoint, backend, checkpointer_open,
           allowed>>

cvars == <<orch_pc, orch_object, orch_stored, orch_cancelled,
           bridge_pc, db_status, api_cancelled>>

lvars == <<breaker, max_retries, now, llm_pc, attempt, retry_count, llm_calls,
           contacts, call_contacts, all_connection_errors, llm_result,
                   responses, truncation>>

bvars == <<bcalls, streak, last_call, bhistory>>

rvars == <<rt_config, rt_pc, rt_attempt, rt_invocations, rt_outcomes, rt_sleeps,
           rt_result>>

fvars == <<fw_text, fw_pc, fw_files>>

wvars == <<ws_pc, ws_status, ws_connections, ws_stalled, ws_todo, ws_sending,
           ws_disconnected, ws_received>>

pvars == <<tp_args, tp_pc, tp_result>>

kvars == <<pool_clients, pool_health, pool_now, pool_created, pool_got>>

avars == <<agent_status, agent_current_task, agent_task_history, agent_tasks>>

vars == <<gvars, cvars, lvars, bvars, rvars, fvars, wvars, pvars, kvars, avars>>

----------------------------------------------------------------------------
\* Bounds of the model.

\* most files one agent result lists in files_created
MaxFiles == 1

\* most execute_* calls on the thread (first call plus re-invocations)
MaxRuns == 2

----------------------------------------------------------------------------
\* Names.

FeatureNodes == {"business_analyst", "architecture_design", "implementation",
                 "qa_testing", "infrastructure", "documentation"}

BugNodes == {"bug_analysis", "bug_fix", "regression_testing", "release_notes"}

\* fields of MultiAgentState / BugFixState annotated with operator.add
AppendFields == {"business_analysis", "architecture", "implementation", "tests",
                 "infrastructure", "documentation",
                 "errors", "files_created", "completed_steps"}

Range(s) == {s[i] : i \in 1..Len(s)}

Count(s, x) == Cardinality({i \in 1..Len(s) : s[i] = x})

\* dict.get(key, default)
Get(d, key, default) == IF key \in DOMAIN d THEN d[key] ELSE default

----------------------------------------------------------------------------
\* The agent runtime.

\* What process_task of an agent can do for a task: raise ("LLM task
\* failed: ..."), or return a result record of status completed with the
\* files it wrote.
ProcessOutcomes ==
    {[raises |-> TRUE, status |-> "completed", nfiles |-> 0]}
    \cup {[raises |-> FALSE, status |-> "completed", nfiles |-> k] : k \in 0..MaxFiles}

\* outcomes of a healthy run: process_task returns its record
SuccessOutcomes == {o \in ProcessOutcomes : ~o.raises}

\* the files a node's result lists, named after the node
Files(n, k) == [i \in 1..k |-> n]

\* BaseAgent.run_task: the task comes back with result set (result is a
\* sequence of length 1) or with error set (a non-empty message); it never
\* raises.
run_task(n, out) ==
    IF out.raises
    THEN [result |-> <<>>, error |-> "LLM task failed"]
    ELSE [result |-> <<[status |-> out.status, files_created |-> Files(n, out.nfiles)]>>,
          error |-> ""]

\* completed_task.result.get("files_created", []) if completed_task.result else []
files_created_of(task) ==
    IF task.result = <<>> THEN <<>> ELSE task.result[1].files_created

----------------------------------------------------------------------------
\* State and reducer.

\* create_initial_state(requirement, "feature_development")
create_initial_state(requirement, workflow_id) ==
    [requirement |-> requirement,
     workflow_type |-> "feature_development",
     workflow_id |-> workflow_id,
     errors |-> <<>>,
     files_created |-> <<>>,
     current_step |-> "start",
     completed_steps |-> <<>>,
     status |-> "running",
     started_at |-> "t_start"]

\* create_bug_fix_state(requirement, bug_description)
create_bug_fix_state(requirement, workflow_id) ==
    [requirement |-> requirement,
     bug_description |-> requirement,
     workflow_type |-> "bug_fix",
     workflow_id |-> workflow_id,
     errors |-> <<>>,
     files_created |-> <<>>,
     current_step |-> "start",
     completed_steps |-> <<>>,
     status |-> "running"]

\* a state without reducers: every field of an update replaces the old
\* value
Reduce_overwrite(s, u) ==
    [k \in (DOMAIN s) \cup (DOMAIN u) |->
        IF k \notin DOMAIN u THEN s[k] ELSE u[k]]

\* The reducer of the state schema: a field annotated with operator.add is
\* old + new, every other field is replaced; fields the update does not name
\* keep their value.
Reduce(s, u) ==
    [k \in (DOMAIN s) \cup (DOMAIN u) |->
        IF k \notin DOMAIN u THEN s[k]
        ELSE IF k \in AppendFields /\ k \in DOMAIN s THEN s[k] \o u[k]
        ELSE u[k]]

----------------------------------------------------------------------------
\* Node functions of the feature-development graph: the partial update a
\* node returns for the task run_task gave back.

\* the {step, error, timestamp} entry a node appends to errors
ErrorEntry(step, task) == [step |-> step, error |-> task.error]

business_analyst_node(task) ==
    IF task.error # ""
    THEN [errors |-> <<ErrorEntry("business_analyst", task)>>,
          current_step |-> "business_analyst",
          completed_steps |-> <<"business_analyst">>,
          status |-> "failed"]
    ELSE [business_analysis |-> task.result,
          files_created |-> files_created_of(task),
          current_step |-> "business_analyst",
          completed_steps |-> <<"business_analyst">>]

developer_design_node(task) ==
    IF task.error # ""
    THEN [errors |-> <<ErrorEntry("architecture_design", task)>>,
          current_step |-> "architecture_design",
          completed_steps |-> <<"architecture_design">>,
          status |-> "failed"]
    ELSE [architecture |-> task.result,
          files_created |-> files_created_of(task),
          current_step |-> "architecture_design",
          completed_steps |-> <<"architecture_design">>]

developer_implementation_node(task) ==
    IF task.error # ""
    THEN [errors |-> <<ErrorEntry("implementation", task)>>,
          current_step |-> "implementation",
          completed_steps |-> <<"implementation">>,
          status |-> "failed"]
    ELSE [implementation |-> task.result,
          files_created |-> files_created_of(task),
          current_step |-> "implementation",
          completed_steps |-> <<"implementation">>]

\* qa_engineer_node whose error update leaves out completed_steps
qa_engineer_node_error_only(task) ==
    IF task.error # ""
    THEN [errors |-> <<ErrorEntry("qa_testing", task)>>]
    ELSE [tests |-> task.result,
          files_created |-> files_created_of(task),
          completed_steps |-> <<"qa_testing">>]

qa_engineer_node(task) ==
    IF task.error # ""
    THEN [errors |-> <<ErrorEntry("qa_testing", task)>>,
          completed_steps |-> <<"qa_testing">>]
    ELSE [tests |-> task.result,
          files_created |-> files_created_of(task),
          completed_steps |-> <<"qa_testing">>]

\* devops_engineer_node that also writes current_step and status
devops_engineer_node_sets_status(task) ==
    IF task.error # ""
    THEN [errors |-> <<ErrorEntry("infrastructure", task)>>,
          current_step |-> "infrastructure",
          completed_steps |-> <<"infrastructure">>,
          status |-> "failed"]
    ELSE [infrastructure |-> task.result,
          files_created |-> files_created_of(task),
          current_step |-> "infrastructure",
          completed_steps |-> <<"infrastructure">>]

devops_engineer_node(task) ==
    IF task.error # ""
    THEN [errors |-> <<ErrorEntry("infrastructure", task)>>,
          completed_steps |-> <<"infrastructure">>]
    ELSE [infrastructure |-> task.result,
          files_created |-> files_created_of(task),
          completed_steps |-> <<"infrastructure">>]

technical_writer_node(task) ==
    IF task.error # ""
    THEN [errors |-> <<ErrorEntry("documentation", task)>>,
          current_step |-> "documentation",
          completed_steps |-> <<"documentation">>,
          status |-> "completed"]
    ELSE [documentation |-> task.result,
          files_created |-> files_created_of(task),
          current_step |-> "documentation",
          completed_steps |-> <<"documentation">>,
          status |-> "completed",
          completed_at |-> "t_end"]

----------------------------------------------------------------------------
\* Routing.

\* A faulty routing: the fan-out forgets the infrastructure branch.
should_continue_only_qa(s) ==
    LET errors == Get(s, "errors", <<>>)
    IN  IF \E i \in 1..Len(errors) : errors[i].step = "implementation"
        THEN {}
        ELSE {"qa_testing"}

\* should_continue_after_implementation: END when errors has an entry of
\* step implementation or the latest implementation record is failed,
\* otherwise Send to qa_testing and infrastructure.
should_continue_after_implementation(s) ==
    LET errors == Get(s, "errors", <<>>)
        implementation == Get(s, "implementation", <<>>)
    IN  IF \E i \in 1..Len(errors) : errors[i].step = "implementation"
        THEN {}
        ELSE IF implementation # <<>>
                /\ implementation[Len(implementation)].status = "failed"
        THEN {}
        ELSE {"qa_testing", "infrastructure"}

\* route_after_parallel: defined by the orchestrator, bound to no edge of
\* either graph.
route_after_parallel(s) ==
    LET errors == Get(s, "errors", <<>>)
        completed_steps == Get(s, "completed_steps", <<>>)
    IN  IF ~("qa_testing" \in Range(completed_steps)
             /\ "infrastructure" \in Range(completed_steps))
        THEN "failed"
        ELSE IF \E i \in 1..Len(errors) :
                    errors[i].step \in {"qa_testing", "infrastructure"}
        THEN "failed"
        ELSE "documentation"

\* build_feature_development_graph with an edge too many: documentation is
\* also started by implementation, next to the two branches.
feature_edges_eager_documentation(n, s) ==
    CASE n = "business_analyst" -> {"architecture_design"}
      [] n = "architecture_design" -> {"implementation"}
      [] n = "implementation" ->
            should_continue_after_implementation(s) \cup {"documentation"}
      [] n = "qa_testing" -> {"documentation"}
      [] n = "infrastructure" -> {"documentation"}
      [] n = "documentation" -> {}

\* The edges build_feature_development_graph adds: the nodes that follow
\* node n once its update is reduced into state s.
feature_edges(n, s) ==
    CASE n = "business_analyst" -> {"architecture_design"}
      [] n = "architecture_design" -> {"implementation"}
      [] n = "implementation" -> should_continue_after_implementation(s)
      [] n = "qa_testing" -> {"documentation"}
      [] n = "infrastructure" -> {"documentation"}
      [] n = "documentation" -> {}

\* The edges build_bug_fix_graph adds.
bug_fix_edges(n) ==
    CASE n = "bug_analysis" -> {"bug_fix"}
      [] n = "bug_fix" -> {"regression_testing"}
      [] n = "regression_testing" -> {"release_notes"}
      [] n = "release_notes" -> {}

\* the nodes of the next superstep, after the nodes in fin all finished
NextNodes(fin, s) ==
    UNION {IF n \in FeatureNodes THEN feature_edges(n, s) ELSE bug_fix_edges(n)
           : n \in fin}

----------------------------------------------------------------------------
\* Node functions of the bug-fix graph (closures of build_bug_fix_graph).
\* They never look at completed_task.error.

bug_analysis_node(task) ==
    [bug_analysis |-> task.result,
     files_created |-> files_created_of(task),
     current_step |-> "bug_analysis",
     completed_steps |-> <<"bug_analysis">>]

bug_fix_node(task) ==
    [bug_fix |-> task.result,
     files_created |-> files_created_of(task),
     current_step |-> "bug_fix",
     completed_steps |-> <<"bug_fix">>]

regression_testing_node(task) ==
    [regression_tests |-> task.result,
     files_created |-> files_created_of(task),
     current_step |-> "regression_testing",
     completed_steps |-> <<"regression_testing">>]

release_notes_node(task) ==
    [release_notes |-> task.result,
     files_created |-> files_created_of(task),
     current_step |-> "release_notes",
     completed_steps |-> <<"release_notes">>,
     status |-> "completed"]

----------------------------------------------------------------------------
\* Execution: execute_feature_development / execute_bug_fix stream the
\* compiled graph; every node that finishes yields the event
\* {node_name: update}, and final_state is the last event.

\* _save_workflow_results(workflow_id, final_state): the artifact is read off
\* the first value of the last event, with defaults for the keys it lacks.
save_workflow_results(workflow_id, fs) ==
    LET actual_state == IF fs = <<>> THEN << >> ELSE fs[1].update
    IN  [workflow_id |-> workflow_id,
         workflow_type |-> Get(actual_state, "workflow_type", "unknown"),
         status |-> Get(actual_state, "status", "completed"),
         requirement |-> Get(actual_state, "requirement", ""),
         completed_steps |-> Get(actual_state, "completed_steps", <<>>),
         files_created |-> Get(actual_state, "files_created", <<>>),
         errors |-> Get(actual_state, "errors", <<>>),
         started_at |-> Get(actual_state, "started_at", "")]

\* The snapshot of the thread the compiled graph's checkpointer holds: a
\* MemorySaver is created by every build_*_graph call and starts empty, the
\* sqlite file outlives the call.
built_checkpointer ==
    IF backend = "memory" THEN <<>> ELSE checkpoint

\* Whether the checkpointer is open when build_*_graph returns the compiled
\* graph. A MemorySaver is never closed. The AsyncSqliteSaver is entered
\* before the graph is built, and the finally clause awaits its __aexit__
\* before the compiled graph is returned; an exception of that call is
\* swallowed, and then the saver stays open.
checkpointer_after_build ==
    IF backend = "memory" THEN {TRUE} ELSE {FALSE, TRUE}

\* app.astream(initial_state, config): the input is written through the
\* reducers onto the thread's latest snapshot, when the checkpointer holds
\* one; the graph then starts at its entry point.
astream_input(snapshot, initial_state) ==
    IF snapshot = <<>> THEN initial_state
    ELSE Reduce(snapshot[1], initial_state)

\* One node of the current superstep runs its task and finishes: its update
\* is reduced into the state and streamed; when it is the last node of the
\* superstep the checkpoint is written and the edges give the next superstep.
NodeFinishes(n, out, update) ==
    /\ pc = "streaming"
    /\ n \in active
    /\ out \in allowed
    /\ state' = Reduce(state, update)
    /\ final_state' = <<[node |-> n, update |-> update]>>
    /\ executed' = Append(executed, [node |-> n, outcome |-> out,
                                      status_before |-> state.status])
    /\ IF active = {n}
       THEN /\ active' = NextNodes(stepped \cup {n}, state')
            /\ stepped' = {}
            /\ checkpoint' = <<state'>>
       ELSE /\ active' = active \ {n}
            /\ stepped' = stepped \cup {n}
            /\ UNCHANGED checkpoint
    /\ UNCHANGED <<pc, artifact, returned, runs, call, backend,
                   checkpointer_open, allowed>>
    /\ UNCHANGED <<cvars, lvars, bvars, rvars, fvars, wvars, pvars, kvars, avars>>

BusinessAnalystNode ==
    /\ "business_analyst" \in active
    /\ \E out \in ProcessOutcomes :
        NodeFinishes("business_analyst", out,
                     business_analyst_node(run_task("business_analyst", out)))

DeveloperDesignNode ==
    /\ "architecture_design" \in active
    /\ \E out \in ProcessOutcomes :
        NodeFinishes("architecture_design", out,
                     developer_design_node(run_task("architecture_design", out)))

DeveloperImplementationNode ==
    /\ "implementation" \in active
    /\ \E out \in ProcessOutcomes :
        NodeFinishes("implementation", out,
                     developer_implementation_node(run_task("implementation", out)))

QaEngineerNode ==
    /\ "qa_testing" \in active
    /\ \E out \in ProcessOutcomes :
        NodeFinishes("qa_testing", out,
                     qa_engineer_node(run_task("qa_testing", out)))

DevopsEngineerNode ==
    /\ "infrastructure" \in active
    /\ \E out \in ProcessOutcomes :
        NodeFinishes("infrastructure", out,
                     devops_engineer_node(run_task("infrastructure", out)))

TechnicalWriterNode ==
    /\ "documentation" \in active
    /\ \E out \in ProcessOutcomes :
        NodeFinishes("documentation", out,
                     technical_writer_node(run_task("documentation", out)))

BugAnalysisNode ==
    /\ "bug_analysis" \in active
    /\ \E out \in ProcessOutcomes :
        NodeFinishes("bug_analysis", out,
                     bug_analysis_node(run_task("bug_analysis", out)))

BugFixNode ==
    /\ "bug_fix" \in active
    /\ \E out \in ProcessOutcomes :
        NodeFinishes("bug_fix", out, bug_fix_node(run_task("bug_fix", out)))

RegressionTestingNode ==
    /\ "regression_testing" \in active
    /\ \E out \in ProcessOutcomes :
        NodeFinishes("regression_testing", out,
                     regression_testing_node(run_task("regression_testing", out)))

ReleaseNotesNode ==
    /\ "release_notes" \in active
    /\ \E out \in ProcessOutcomes :
        NodeFinishes("release_notes", out,
                     release_notes_node(run_task("release_notes", out)))

\* A call of execute_* begins: initial state, graph built, stream started.
\* call.resumed says what the checkpointer held for the thread, and
\* call.previous is the state the thread had before the call.
Begin(graph, requirement, workflow_id, initial_state, entry) ==
    /\ runs < MaxRuns
    /\ runs' = runs + 1
    /\ call' = [graph |-> graph, workflow_id |-> workflow_id,
                requirement |-> requirement,
                resumed |-> (IF built_checkpointer = <<>> THEN "nothing"
                             ELSE built_checkpointer[1].status),
                previous |-> state]
    /\ checkpoint' = built_checkpointer
    /\ checkpointer_open' \in checkpointer_after_build
    /\ state' = astream_input(built_checkpointer, initial_state)
    /\ active' = {entry}
    /\ stepped' = {}
    /\ final_state' = <<>>
    /\ executed' = <<>>
    /\ artifact' = <<>>
    /\ returned' = <<>>
    /\ pc' = "streaming"
    /\ UNCHANGED <<backend, allowed>>
    /\ UNCHANGED <<cvars, lvars, bvars, rvars, fvars, wvars, pvars, kvars, avars>>

\* execute_feature_development(requirement) on a thread of its own
ExecuteFeatureDevelopment ==
    /\ pc = "idle"
    /\ Begin("feature_development", "req", 1,
             create_initial_state("req", 1), "business_analyst")

\* execute_bug_fix(requirement, bug_description) on a thread of its own
ExecuteBugFix ==
    /\ pc = "idle"
    /\ Begin("bug_fix", "req", 1, create_bug_fix_state("req", 1), "bug_analysis")

\* execute_feature_development(requirement, thread_id) again, with the
\* thread_id of the call that returned: how a workflow is resumed. The new
\* workflow_id comes from the clock, one second resolution.
ResumeFeatureDevelopment ==
    /\ pc = "returned"
    /\ call.graph = "feature_development"
    /\ \E requirement \in {call.requirement, "Resuming from checkpoint..."},
          workflow_id \in {call.workflow_id, call.workflow_id + 1} :
            Begin("feature_development", requirement, workflow_id,
                  create_initial_state(requirement, workflow_id),
                  "business_analyst")

\* The stream is exhausted: save the results and return final_state.
Return ==
    /\ pc = "streaming"
    /\ active = {}
    /\ artifact' = <<save_workflow_results(call.workflow_id, final_state)>>
    /\ returned' = final_state
    /\ pc' = "returned"
    /\ UNCHANGED <<state, active, stepped, final_state, executed, runs, call,
                   checkpoint, backend, checkpointer_open, allowed>>
    /\ UNCHANGED <<cvars, lvars, bvars, rvars, fvars, wvars, pvars, kvars, avars>>

----------------------------------------------------------------------------
\* Cancellation. Two places start and cancel workflows: the Orchestrator
\* service (start_workflow / cancel_workflow over active_workflows) and the
\* HTTP router with the OrchestratorBridge (a background task per workflow,
\* the status kept in the workflow's database row).

\* bound: number of workflows started side by side
MaxWorkflows == 2

Workflows == 1..MaxWorkflows

\* Orchestrator.start_workflow up to the await of the engine: the new
\* WorkflowState (PENDING) is stored under its request id and
\* WorkflowEngine.execute marks it RUNNING before it awaits the graph.
StartWorkflow(w) ==
    /\ orch_pc[w] = "new"
    /\ orch_pc' = [orch_pc EXCEPT ![w] = "in_flight"]
    /\ orch_object' = [orch_object EXCEPT ![w] = "running"]
    /\ orch_stored' = [orch_stored EXCEPT ![w] = "running"]
    /\ UNCHANGED <<orch_cancelled, bridge_pc, db_status, api_cancelled>>
    /\ UNCHANGED <<gvars, lvars, bvars, rvars, fvars, wvars, pvars, kvars, avars>>

\* The graph returned: WorkflowEngine.execute builds a new WorkflowState
\* from the final dict, marks it COMPLETED, and start_workflow stores it
\* under the request id in place of the object it held.
ExecuteSucceeds(w) ==
    /\ orch_pc[w] = "in_flight"
    /\ orch_pc' = [orch_pc EXCEPT ![w] = "done"]
    /\ orch_stored' = [orch_stored EXCEPT ![w] = "completed"]
    /\ UNCHANGED <<orch_object, orch_cancelled, bridge_pc, db_status, api_cancelled>>
    /\ UNCHANGED <<gvars, lvars, bvars, rvars, fvars, wvars, pvars, kvars, avars>>

\* The graph raised: execute and start_workflow both mark the original
\* object FAILED, and start_workflow stores it again and re-raises.
ExecuteFails(w) ==
    /\ orch_pc[w] = "in_flight"
    /\ orch_pc' = [orch_pc EXCEPT ![w] = "done"]
    /\ orch_object' = [orch_object EXCEPT ![w] = "failed"]
    /\ orch_stored' = [orch_stored EXCEPT ![w] = "failed"]
    /\ UNCHANGED <<orch_cancelled, bridge_pc, db_status, api_cancelled>>
    /\ UNCHANGED <<gvars, lvars, bvars, rvars, fvars, wvars, pvars, kvars, avars>>

\* Orchestrator.cancel_workflow: marks the object active_workflows holds
\* CANCELLED when there is one; while the engine is in flight that object
\* is the one start_workflow created.
CancelWorkflow(w) ==
    /\ orch_stored[w] # "absent"
    /\ orch_stored' = [orch_stored EXCEPT ![w] = "cancelled"]
    /\ orch_object' = [orch_object EXCEPT
                          ![w] = IF orch_pc[w] = "in_flight" THEN "cancelled" ELSE @]
    /\ orch_cancelled' = [orch_cancelled EXCEPT
                          ![w] = @ \/ orch_pc[w] = "in_flight"]
    /\ UNCHANGED <<orch_pc, bridge_pc, db_status, api_cancelled>>
    /\ UNCHANGED <<gvars, lvars, bvars, rvars, fvars, wvars, pvars, kvars, avars>>

\* OrchestratorBridge._update_status: writes the status when the row exists
update_status(w, status) ==
    [db_status EXCEPT ![w] = IF @ = "absent" THEN @ ELSE status]

\* POST /workflows: the row is inserted as pending and
\* orchestrator_bridge.start_workflow creates the _run task.
CreateWorkflow(w) ==
    /\ bridge_pc[w] = "none"
    /\ db_status' = [db_status EXCEPT ![w] = "pending"]
    /\ bridge_pc' = [bridge_pc EXCEPT ![w] = "created"]
    /\ UNCHANGED <<orch_pc, orch_object, orch_stored, orch_cancelled, api_cancelled>>
    /\ UNCHANGED <<gvars, lvars, bvars, rvars, fvars, wvars, pvars, kvars, avars>>

\* _run begins: _update_status(running), then it awaits execute_*.
BridgeRunStarts(w) ==
    /\ bridge_pc[w] = "created"
    /\ db_status' = update_status(w, "running")
    /\ bridge_pc' = [bridge_pc EXCEPT ![w] = "in_flight"]
    /\ UNCHANGED <<orch_pc, orch_object, orch_stored, orch_cancelled, api_cancelled>>
    /\ UNCHANGED <<gvars, lvars, bvars, rvars, fvars, wvars, pvars, kvars, avars>>

\* execute_* returned: _update_status(completed).
BridgeRunSucceeds(w) ==
    /\ bridge_pc[w] = "in_flight"
    /\ db_status' = update_status(w, "completed")
    /\ bridge_pc' = [bridge_pc EXCEPT ![w] = "done"]
    /\ UNCHANGED <<orch_pc, orch_object, orch_stored, orch_cancelled, api_cancelled>>
    /\ UNCHANGED <<gvars, lvars, bvars, rvars, fvars, wvars, pvars, kvars, avars>>

\* execute_* raised: _update_status(failed).
BridgeRunFails(w) ==
    /\ bridge_pc[w] = "in_flight"
    /\ db_status' = update_status(w, "failed")
    /\ bridge_pc' = [bridge_pc EXCEPT ![w] = "done"]
    /\ UNCHANGED <<orch_pc, orch_object, orch_stored, orch_cancelled, api_cancelled>>
    /\ UNCHANGED <<gvars, lvars, bvars, rvars, fvars, wvars, pvars, kvars, avars>>

\* POST /workflows/{id}/cancel: the row is marked cancelled; the _run task
\* of the workflow is left alone.
ApiCancelWorkflow(w) ==
    /\ db_status[w] # "absent"
    /\ db_status' = [db_status EXCEPT ![w] = "cancelled"]
    /\ api_cancelled' = [api_cancelled EXCEPT
                          ![w] = @ \/ bridge_pc[w] = "in_flight"]
    /\ UNCHANGED <<orch_pc, orch_object, orch_stored, orch_cancelled, bridge_pc>>
    /\ UNCHANGED <<gvars, lvars, bvars, rvars, fvars, wvars, pvars, kvars, avars>>

InitCancel ==
    /\ orch_pc = [w \in Workflows |-> "new"]
    /\ orch_object = [w \in Workflows |-> "absent"]
    /\ orch_stored = [w \in Workflows |-> "absent"]
    /\ orch_cancelled = [w \in Workflows |-> FALSE]
    /\ bridge_pc = [w \in Workflows |-> "none"]
    /\ db_status = [w \in Workflows |-> "absent"]
    /\ api_cancelled = [w \in Workflows |-> FALSE]

----------------------------------------------------------------------------
\* The LLM pipeline of one agent: execute_llm_task runs
\* retry_with_exponential_backoff over the breaker-protected
\* _call_local_llama_server, which sends the request to the endpoint.

\* bounds: the settings read from the environment, the clock, the calls
MaxThreshold == 2
MaxRecovery == 1
MaxHalfOpen == 2
MaxRetries == 3
MaxTime == 3
MaxCalls == 2

\* What the endpoint can answer to one request.
EndpointResponses ==
    {"ok", "connection_error", "timeout", "context_size", "other_error"}

NotConfiguredError == "OPENAI_API_BASE not configured"
BreakerOpenError == "LLM service is temporarily unavailable (circuit breaker open)"
TimedOutError == "Local llama-server request timed out"
ContextPersistedError == "Context size error persisted after truncation"
LlamaServerError == "Local llama-server error"
RetryError == "Failed after max_attempts attempts"
OtherError == "str(e)"

\* CircuitBreaker.__init__
CircuitBreaker(failure_threshold, recovery_timeout, half_open_attempts) ==
    [failure_threshold |-> failure_threshold,
     recovery_timeout |-> recovery_timeout,
     half_open_attempts |-> half_open_attempts,
     failure_count |-> 0,
     last_failure_time |-> <<>>,
     state |-> "CLOSED",
     half_open_success_count |-> 0]

\* The wrapper of CircuitBreaker.call before it invokes the function: an
\* OPEN breaker lets the call through as HALF_OPEN once recovery_timeout
\* has passed since the last failure, and raises CircuitBreakerError
\* otherwise.
breaker_admit(b, t) ==
    IF b.state = "OPEN"
    THEN IF /\ b.last_failure_time # <<>>
            /\ b.last_failure_time[1] # 0
            /\ t - b.last_failure_time[1] >= b.recovery_timeout
         THEN [admitted |-> TRUE,
               breaker |-> [b EXCEPT !.state = "HALF_OPEN",
                                     !.half_open_success_count = 0]]
         ELSE [admitted |-> FALSE, breaker |-> b]
    ELSE [admitted |-> TRUE, breaker |-> b]

\* A faulty wrapper: the first success in HALF_OPEN closes the breaker.
breaker_success_eager(b) ==
    IF b.state = "HALF_OPEN"
    THEN [b EXCEPT !.half_open_success_count = @ + 1,
                   !.state = "CLOSED",
                   !.failure_count = 0]
    ELSE IF b.state = "CLOSED" /\ b.failure_count > 0
         THEN [b EXCEPT !.failure_count = 0]
         ELSE b

\* The wrapper after the function returned.
breaker_success(b) ==
    IF b.state = "HALF_OPEN"
    THEN LET c == b.half_open_success_count + 1 IN
         IF c >= b.half_open_attempts
         THEN [b EXCEPT !.half_open_success_count = c,
                        !.state = "CLOSED",
                        !.failure_count = 0]
         ELSE [b EXCEPT !.half_open_success_count = c]
    ELSE IF b.state = "CLOSED" /\ b.failure_count > 0
         THEN [b EXCEPT !.failure_count = 0]
         ELSE b

\* A faulty wrapper: it opens one failure late.
breaker_failure_late(b, t) ==
    LET c == b.failure_count + 1 IN
    [b EXCEPT !.failure_count = c,
              !.last_failure_time = <<t>>,
              !.state = IF b.state = "HALF_OPEN" THEN "OPEN"
                        ELSE IF c > b.failure_threshold THEN "OPEN"
                        ELSE b.state]

\* The wrapper after the function raised.
breaker_failure(b, t) ==
    LET c == b.failure_count + 1 IN
    [b EXCEPT !.failure_count = c,
              !.last_failure_time = <<t>>,
              !.state = IF b.state = "HALF_OPEN" THEN "OPEN"
                        ELSE IF c >= b.failure_threshold THEN "OPEN"
                        ELSE b.state]

LlmFailure(error) == [success |-> FALSE, error |-> error]

\* A faulty handler: it truncates and calls itself whatever retry_count is.
call_local_llama_server_unguarded(r, rc, was_truncated) ==
    CASE r = "ok" ->
           [raised |-> "none", recurse |-> FALSE,
            result |-> [success |-> TRUE, error |-> ""]]
      [] r = "context_size" /\ was_truncated ->
           [raised |-> "none", recurse |-> TRUE,
            result |-> [success |-> FALSE, error |-> ""]]
      [] OTHER ->
           [raised |-> "none", recurse |-> FALSE,
            result |-> [success |-> FALSE, error |-> "Local llama-server error"]]

\* _call_local_llama_server once the endpoint answered its request with r:
\* it returns the content, or catches the error and returns a failure
\* result, or (first context-size error, prompts truncated) calls itself
\* with retry_count = 1. was_truncated is what _truncate_prompt_to_fit
\* reports for the prompts of the call. raised is the exception that
\* leaves the function.
call_local_llama_server(r, rc, was_truncated) ==
    CASE r = "ok" ->
           [raised |-> "none", recurse |-> FALSE,
            result |-> [success |-> TRUE, error |-> ""]]
      [] r = "timeout" ->
           [raised |-> "none", recurse |-> FALSE,
            result |-> LlmFailure(TimedOutError)]
      [] r = "context_size" /\ rc = 0 /\ was_truncated ->
           [raised |-> "none", recurse |-> TRUE,
            result |-> LlmFailure("")]
      [] r = "context_size" /\ rc # 0 ->
           [raised |-> "none", recurse |-> FALSE,
            result |-> LlmFailure(ContextPersistedError)]
      [] OTHER ->
           [raised |-> "none", recurse |-> FALSE,
            result |-> LlmFailure(LlamaServerError)]

\* retry_with_exponential_backoff entering attempt k with breaker b at
\* time t: the breaker admits the call, or its CircuitBreakerError (non
\* retriable) leaves the loop and execute_llm_task returns the
\* breaker-open failure.
retry_attempt(b, t, k) ==
    LET adm == breaker_admit(b, t) IN
    IF adm.admitted
    THEN [breaker |-> adm.breaker, pc |-> "requesting", attempt |-> k,
          result |-> <<>>]
    ELSE [breaker |-> adm.breaker, pc |-> "done", attempt |-> k,
          result |-> <<LlmFailure(BreakerOpenError)>>]

\* The breaker wrapper, the retry loop and execute_llm_task once the
\* function left with outcome out in attempt k: a result is returned as it
\* is; a retriable exception (TimeoutError, ConnectionError, OSError)
\* starts the next attempt or, after the last one, ends in RetryError; any
\* other exception ends the call; execute_llm_task turns what is raised
\* into a failure result.
retry_outcome(b, t, k, attempts, out) ==
    IF out.raised = "none"
    THEN [breaker |-> breaker_success(b), pc |-> "done", attempt |-> k,
          result |-> <<out.result>>]
    ELSE IF out.raised = "retriable"
    THEN IF k < attempts - 1
         THEN retry_attempt(breaker_failure(b, t), t, k + 1)
         ELSE [breaker |-> breaker_failure(b, t), pc |-> "done",
               attempt |-> k, result |-> <<LlmFailure(RetryError)>>]
    ELSE [breaker |-> breaker_failure(b, t), pc |-> "done", attempt |-> k,
          result |-> <<LlmFailure(OtherError)>>]

\* execute_llm_task is called: without OPENAI_API_BASE it returns the
\* configuration failure, otherwise the retry loop enters attempt 0.
ExecuteLlmTask(api_base) ==
    /\ llm_pc \in {"idle", "done"}
    /\ llm_calls < MaxCalls
    /\ llm_calls' = llm_calls + 1
    /\ call_contacts' = 0
    /\ responses' = <<>>
    /\ truncation' = "none"
    /\ retry_count' = 0
    /\ IF api_base
       THEN LET r == retry_attempt(breaker, now, 0) IN
            /\ breaker' = r.breaker
            /\ llm_pc' = r.pc
            /\ attempt' = r.attempt
            /\ llm_result' = r.result
       ELSE /\ llm_pc' = "done"
            /\ attempt' = 0
            /\ llm_result' = <<LlmFailure(NotConfiguredError)>>
            /\ UNCHANGED breaker
    /\ UNCHANGED <<max_retries, now, contacts, all_connection_errors>>
    /\ UNCHANGED <<gvars, cvars, bvars, rvars, fvars, wvars, pvars, kvars, avars>>

\* The endpoint answers the request in flight with r.
EndpointResponds(r, was_truncated) ==
    /\ llm_pc = "requesting"
    /\ contacts' = contacts + 1
    /\ call_contacts' = call_contacts + 1
    /\ all_connection_errors' = (all_connection_errors /\ r = "connection_error")
    /\ responses' = Append(responses, r)
    /\ truncation' = IF r = "context_size" /\ retry_count = 0
                     THEN (IF was_truncated THEN "truncated" ELSE "fits")
                     ELSE truncation
    /\ LET out == call_local_llama_server(r, retry_count, was_truncated) IN
       IF out.recurse
       THEN /\ retry_count' = 1
            /\ UNCHANGED <<breaker, llm_pc, attempt, llm_result>>
       ELSE LET n == retry_outcome(breaker, now, attempt, max_retries, out) IN
            /\ breaker' = n.breaker
            /\ llm_pc' = n.pc
            /\ attempt' = n.attempt
            /\ llm_result' = n.result
            /\ retry_count' = 0
    /\ UNCHANGED <<max_retries, now, llm_calls>>
    /\ UNCHANGED <<gvars, cvars, bvars, rvars, fvars, wvars, pvars, kvars, avars>>

\* The event loop's clock advances.
Tick ==
    /\ now < MaxTime
    /\ now' = now + 1
    /\ UNCHANGED <<breaker, max_retries, llm_pc, attempt, retry_count, llm_calls,
                   contacts, call_contacts, all_connection_errors, llm_result,
                   responses, truncation>>
    /\ UNCHANGED <<gvars, cvars, bvars, rvars, fvars, wvars, pvars, kvars, avars>>

\* BaseAgent.__init__ with the settings the environment gives.
InitLLM ==
    /\ \E ft \in 1..MaxThreshold, rt \in 1..MaxRecovery, ha \in 1..MaxHalfOpen :
          breaker = CircuitBreaker(ft, rt, ha)
    /\ max_retries \in 1..MaxRetries
    /\ now = 1
    /\ llm_pc = "idle"
    /\ attempt = 0
    /\ retry_count = 0
    /\ llm_calls = 0
    /\ contacts = 0
    /\ call_contacts = 0
    /\ all_connection_errors = TRUE
    /\ llm_result = <<>>
    /\ responses = <<>>
    /\ truncation = "none"

\* The pipeline of an agent whose execute_llm_task is not called.
IdleLLM ==
    /\ breaker = CircuitBreaker(MaxThreshold, MaxRecovery, MaxHalfOpen)
    /\ max_retries = MaxRetries
    /\ now = 1
    /\ llm_pc = "idle"
    /\ attempt = 0
    /\ retry_count = 0
    /\ llm_calls = 0
    /\ contacts = 0
    /\ call_contacts = 0
    /\ all_connection_errors = TRUE
    /\ llm_result = <<>>
    /\ responses = <<>>
    /\ truncation = "none"

----------------------------------------------------------------------------
\* The circuit breaker on its own: callers go through the wrapper of
\* CircuitBreaker.call around a function that returns or raises.

\* bound: callers that share the breaker
MaxCallers == 2

Callers == 1..MaxCallers

\* bound: calls made through the breaker
MaxBreakerCalls == 4

\* the calls made so far: finished, rejected or in flight
calls_made ==
    bhistory.ok + bhistory.fail + bhistory.rej
        + Cardinality({c \in Callers : bcalls[c] = "in_flight"})

\* A caller enters the wrapper: the breaker raises CircuitBreakerError, or
\* admits the call and the function is invoked.
BreakerCall(c) ==
    /\ bcalls[c] = "idle"
    /\ calls_made < MaxBreakerCalls
    /\ LET adm == breaker_admit(breaker, now) IN
       /\ breaker' = adm.breaker
       /\ bcalls' = [bcalls EXCEPT ![c] = IF adm.admitted THEN "in_flight" ELSE @]
       /\ last_call' = IF adm.admitted THEN "admitted" ELSE "rejected"
       /\ bhistory' = IF adm.admitted THEN bhistory
                      ELSE [bhistory EXCEPT !.rej = @ + 1]
    /\ UNCHANGED <<streak, max_retries, now, llm_pc, attempt, retry_count,
                   llm_calls, contacts, call_contacts, all_connection_errors,
                   llm_result,
                   responses, truncation>>
    /\ UNCHANGED <<gvars, cvars, rvars, fvars, wvars, pvars, kvars, avars>>

\* The function of caller c returns: the wrapper's success branch.
FuncReturns(c) ==
    /\ bcalls[c] = "in_flight"
    /\ breaker' = breaker_success(breaker)
    /\ bcalls' = [bcalls EXCEPT ![c] = "idle"]
    /\ streak' = 0
    /\ bhistory' = [bhistory EXCEPT !.ok = @ + 1]
    /\ UNCHANGED <<last_call, max_retries, now, llm_pc, attempt, retry_count,
                   llm_calls, contacts, call_contacts, all_connection_errors,
                   llm_result,
                   responses, truncation>>
    /\ UNCHANGED <<gvars, cvars, rvars, fvars, wvars, pvars, kvars, avars>>

\* The function of caller c raises: the wrapper's except branch.
FuncRaises(c) ==
    /\ bcalls[c] = "in_flight"
    /\ breaker' = breaker_failure(breaker, now)
    /\ bcalls' = [bcalls EXCEPT ![c] = "idle"]
    /\ streak' = streak + 1
    /\ bhistory' = [bhistory EXCEPT !.fail = @ + 1]
    /\ UNCHANGED <<last_call, max_retries, now, llm_pc, attempt, retry_count,
                   llm_calls, contacts, call_contacts, all_connection_errors,
                   llm_result,
                   responses, truncation>>
    /\ UNCHANGED <<gvars, cvars, rvars, fvars, wvars, pvars, kvars, avars>>

InitBreaker ==
    /\ bcalls = [c \in Callers |-> "idle"]
    /\ streak = 0
    /\ last_call = "none"
    /\ bhistory = [ok |-> 0, fail |-> 0, rej |-> 0]

----------------------------------------------------------------------------
\* retry_with_exponential_backoff on its own, around a function that
\* returns or raises.

\* bounds: the keyword arguments of a call
MaxAttempts == 3
MaxInitialDelay == 1
MaxDelay == 3

\* default of exponential_base
ExponentialBase == 2

\* How one invocation of func can end: it returns, or raises an exception
\* of non_retriable_exceptions, of retriable_exceptions, or of neither.
FuncOutcomes == {"ok", "non_retriable", "retriable", "other"}

\* What random.random() is drawn from, in halves: 0 and 0.5.
JitterDraws == {0, 1}

RECURSIVE Pow(_, _)
Pow(b, e) == IF e = 0 THEN 1 ELSE b * Pow(b, e - 1)

Min(a, b) == IF a <= b THEN a ELSE b

\* A faulty delay: max_delay is not applied.
backoff_delay_uncapped(cfg, k, draw) ==
    LET delay == cfg.initial_delay * Pow(ExponentialBase, k)
    IN  IF cfg.jitter THEN delay * (1 + draw) ELSE 2 * delay

\* delay = min(initial_delay * (exponential_base ** attempt), max_delay),
\* times (0.5 + random.random()) with jitter; the value is in half seconds.
backoff_delay(cfg, k, draw) ==
    LET delay == Min(cfg.initial_delay * Pow(ExponentialBase, k), cfg.max_delay)
    IN  IF cfg.jitter THEN delay * (1 + draw) ELSE 2 * delay

\* A faulty loop bound: one attempt too many.
attempts_left_off_by_one(cfg, k) == k < cfg.max_attempts

\* for attempt in range(max_attempts), seen from attempt k: another
\* attempt follows (attempt < max_attempts - 1).
attempts_left(cfg, k) == k < cfg.max_attempts - 1

\* The call begins: the loop invokes func for attempt 0, or, with no
\* attempt allowed, falls through to RetryError with no cause.
RetryCall ==
    /\ rt_pc \in {"idle", "done"}
    /\ rt_attempt' = 0
    /\ rt_outcomes' = <<>>
    /\ rt_sleeps' = <<>>
    /\ IF rt_config.max_attempts > 0
       THEN /\ rt_pc' = "calling"
            /\ rt_invocations' = 1
            /\ rt_result' = <<>>
       ELSE /\ rt_pc' = "done"
            /\ rt_invocations' = 0
            /\ rt_result' = <<[kind |-> "RetryError", cause |-> "None"]>>
    /\ UNCHANGED rt_config
    /\ UNCHANGED <<gvars, cvars, lvars, bvars, fvars, wvars, pvars, kvars, avars>>

\* The invocation of the current attempt ends with outcome o: a result is
\* returned; a non-retriable exception is re-raised; a retriable one is
\* followed by a sleep, or after the last attempt by RetryError; any other
\* exception leaves the function as it is.
FuncOutcome(o, draw) ==
    /\ rt_pc = "calling"
    /\ rt_outcomes' = Append(rt_outcomes, o)
    /\ IF o = "ok"
       THEN /\ rt_pc' = "done"
            /\ rt_result' = <<[kind |-> "returned", cause |-> o]>>
            /\ UNCHANGED rt_sleeps
       ELSE IF o = "non_retriable"
       THEN /\ rt_pc' = "done"
            /\ rt_result' = <<[kind |-> "raised", cause |-> o]>>
            /\ UNCHANGED rt_sleeps
       ELSE IF o = "retriable"
       THEN IF attempts_left(rt_config, rt_attempt)
            THEN /\ rt_pc' = "sleeping"
                 /\ rt_sleeps' = Append(rt_sleeps,
                                        backoff_delay(rt_config, rt_attempt, draw))
                 /\ UNCHANGED rt_result
            ELSE /\ rt_pc' = "done"
                 /\ rt_result' = <<[kind |-> "RetryError", cause |-> o]>>
                 /\ UNCHANGED rt_sleeps
       ELSE /\ rt_pc' = "done"
            /\ rt_result' = <<[kind |-> "raised", cause |-> o]>>
            /\ UNCHANGED rt_sleeps
    /\ UNCHANGED <<rt_config, rt_attempt, rt_invocations>>
    /\ UNCHANGED <<gvars, cvars, lvars, bvars, fvars, wvars, pvars, kvars, avars>>

\* asyncio.sleep(delay) is over: the loop invokes func for the next attempt.
RetryWakes ==
    /\ rt_pc = "sleeping"
    /\ rt_pc' = "calling"
    /\ rt_attempt' = rt_attempt + 1
    /\ rt_invocations' = rt_invocations + 1
    /\ UNCHANGED <<rt_config, rt_outcomes, rt_sleeps, rt_result>>
    /\ UNCHANGED <<gvars, cvars, lvars, bvars, fvars, wvars, pvars, kvars, avars>>

RetryIdle ==
    /\ rt_pc = "idle"
    /\ rt_attempt = 0
    /\ rt_invocations = 0
    /\ rt_outcomes = <<>>
    /\ rt_sleeps = <<>>
    /\ rt_result = <<>>

\* a call about to be made with some keyword arguments
InitRetry ==
    /\ rt_config \in [max_attempts : 0..MaxAttempts,
                      initial_delay : 1..MaxInitialDelay,
                      max_delay : 1..MaxDelay,
                      jitter : BOOLEAN]
    /\ RetryIdle

\* no call of retry_with_exponential_backoff is made: the defaults
IdleRetry ==
    /\ rt_config = [max_attempts |-> MaxAttempts, initial_delay |-> 1,
                    max_delay |-> MaxDelay, jitter |-> TRUE]
    /\ RetryIdle

----------------------------------------------------------------------------
\* FileWriter.extract_file_structure. A text is a "File:" marker line
\* followed by lines; a line is a sequence of tokens: a fence line is
\* <<Fence>> or <<Fence, tag>>, any other line is made of words (\w+),
\* colons and other runs of characters. The patterns for "**File:" and
\* for "```language:filename" openers have nothing to match in such texts,
\* except where a bare fence is followed by a line "word: rest".

\* bound: lines of a text after its opening fence
MaxBody == 4

\* the token of three back-quotes
Fence == "FENCE"
BareFence == <<Fence>>
Words == {"pytest", "Note"}

\* the lines a text is made of after its opening fence
BodyLines ==
    {BareFence, <<Fence, "python">>,
     <<"pytest", ">=7.0.0">>, <<"#", "Title">>, <<"Note", ":", "requires">>}

IsFence(l) == l # <<>> /\ l[1] = Fence
IsTagged(l) == IsFence(l) /\ Len(l) > 1

\* str.strip() on a block of lines: the empty lines at both ends go
RECURSIVE strip(_)
strip(ls) ==
    IF ls = <<>> THEN <<>>
    ELSE IF ls[1] = <<>> THEN strip(Tail(ls))
    ELSE IF ls[Len(ls)] = <<>> THEN strip(SubSeq(ls, 1, Len(ls) - 1))
    ELSE ls

\* _sanitize_filename: the back-quotes around the path go
sanitize_filename(marker) == marker.path

\* What an opening pattern leaves after a marker's fence, lines[1]:
\* ```\s*(?:\w+(?:-\w+)*)?\s*\n? takes the tag of the fence, and when the
\* fence has none, \s* runs over the line end and the optional tag group
\* takes the first word of the next line.
after_opening(lines) ==
    IF IsTagged(lines[1]) \/ Len(lines) = 1 THEN Tail(lines)
    ELSE IF lines[2] # <<>> /\ lines[2][1] \in Words
         THEN <<Tail(lines[2])>> \o SubSeq(lines, 3, Len(lines))
         ELSE Tail(lines)

\* The depth tracking over the fences of remaining_text: a fence with text
\* after it opens (depth + 1), a bare one closes (depth - 1); the result is
\* the index of the fence that brings the depth to 0, or 0.
RECURSIVE close_from(_, _, _)
close_from(ls, i, depth) ==
    IF i > Len(ls) THEN 0
    ELSE IF IsTagged(ls[i]) THEN close_from(ls, i + 1, depth + 1)
    ELSE IF ls[i] = BareFence
         THEN (IF depth = 1 THEN i ELSE close_from(ls, i + 1, depth - 1))
    ELSE close_from(ls, i + 1, depth)

close_match(ls) == close_from(ls, 1, 1)

\* the first bare fence of remaining_text, or 0: the fallback patterns of
\* the "```language:filename" branch
first_bare_fence(ls) ==
    IF \E i \in 1..Len(ls) : ls[i] = BareFence
    THEN CHOOSE i \in 1..Len(ls) :
             ls[i] = BareFence /\ \A j \in 1..(i - 1) : ls[j] # BareFence
    ELSE 0

\* the matches of pattern_colon, ```\s*\w+:\s*([^\n]+): the bare fences
\* whose next line is "word: rest"
colon_matches(lines) ==
    {i \in 1..(Len(lines) - 1) :
        /\ lines[i] = BareFence
        /\ Len(lines[i + 1]) >= 3
        /\ lines[i + 1][1] \in Words
        /\ lines[i + 1][2] = ":"}

\* the files of the "```language:filename" branch, the matches being taken
\* in order: match i names the file after its colon, and its content runs
\* to the closing fence found before the next match
RECURSIVE colon_files(_, _, _)
colon_files(lines, ms, files) ==
    IF ms = {} THEN files
    ELSE LET i == CHOOSE m \in ms : \A n \in ms : m <= n
             rest == ms \ {i}
             end_search == IF rest = {} THEN Len(lines)
                           ELSE (CHOOSE m \in rest : \A n \in rest : m <= n) - 1
             remaining_text == SubSeq(lines, i + 2, end_search)
             depth_close == close_match(remaining_text)
             close == IF depth_close # 0 THEN depth_close
                      ELSE first_bare_fence(remaining_text)
             filename == lines[i + 1][3]
         IN  colon_files(lines, rest,
                 IF close # 0
                 THEN (filename :> strip(SubSeq(remaining_text, 1, close - 1)))
                          @@ files
                 ELSE files)

\* the entry of the File: `path` branch (pattern_no_bold): set when the
\* marker is back-quoted and the depth tracking finds the closing fence
no_bold_files(text, files) ==
    LET remaining_text == after_opening(text.lines)
        close == close_match(remaining_text)
    IN  IF text.marker.quoted /\ close # 0
        THEN (sanitize_filename(text.marker)
                :> strip(SubSeq(remaining_text, 1, close - 1))) @@ files
        ELSE files

\* the entry of the File: path branch (pattern_no_backticks), tried in
\* every case: a content that is not empty is stored; without a closing
\* fence the last file takes all the remaining text
no_backticks_files(text, files) ==
    LET remaining_text == after_opening(text.lines)
        close == close_match(remaining_text)
        content == IF close # 0
                   THEN strip(SubSeq(remaining_text, 1, close - 1))
                   ELSE strip(remaining_text)
    IN  IF content # <<>>
        THEN (sanitize_filename(text.marker) :> content) @@ files
        ELSE files

\* the number of keys of a dict
len(files) == Cardinality(DOMAIN files)

\* extract_file_structure(text)
extract_file_structure(text) ==
    LET matches == colon_matches(text.lines)
        files == colon_files(text.lines, matches, <<>>)
    IN  IF len(files) > 0 /\ len(files) = Cardinality(matches)
        THEN files
        ELSE no_backticks_files(text, no_bold_files(text, files))

\* The extractor is applied to the text.
ExtractFileStructure ==
    /\ fw_pc = "input"
    /\ fw_files' = extract_file_structure(fw_text)
    /\ fw_pc' = "extracted"
    /\ UNCHANGED fw_text
    /\ UNCHANGED <<gvars, cvars, lvars, bvars, rvars, wvars, pvars, kvars, avars>>

RECURSIVE SeqsUpTo(_, _)
SeqsUpTo(S, n) ==
    IF n = 0 THEN {<<>>}
    ELSE LET shorter == SeqsUpTo(S, n - 1)
         IN  shorter \cup {Append(q, x) : q \in shorter, x \in S}

\* a text the extractor can be given: the marker of one file, an opening
\* fence with or without a language tag, and the lines after it
InitFileWriter ==
    /\ \E quoted \in BOOLEAN, path \in {"requirements.txt", "README.md"},
          opener \in {BareFence, <<Fence, "markdown">>},
          body \in SeqsUpTo(BodyLines, MaxBody) :
            fw_text = [marker |-> [path |-> path, quoted |-> quoted],
                       lines |-> <<opener>> \o body]
    /\ fw_pc = "input"
    /\ fw_files = <<>>

\* the extractor is not used
IdleFileWriter ==
    /\ fw_text = [marker |-> [path |-> "README.md", quoted |-> FALSE],
                  lines |-> <<BareFence>>]
    /\ fw_pc = "input"
    /\ fw_files = <<>>

----------------------------------------------------------------------------
\* OrchestratorBridge.start_workflow._run with the status events it sends
\* through ConnectionManager.broadcast, for one workflow.

\* bound: WebSocket connections of the workflow
MaxConnections == 3

Connections == 1..MaxConnections

\* ConnectionManager.broadcast(workflow_id, message), from its start to its
\* first await or its return: with no connection it returns and _run goes
\* on to `after`; otherwise the loop takes a connection and awaits its
\* send_json, _run being at `during`.
broadcast_begins(during, after) ==
    IF ws_connections = {}
    THEN /\ ws_pc' = after
         /\ UNCHANGED <<ws_todo, ws_sending>>
    ELSE /\ ws_pc' = during
         /\ \E c \in ws_connections :
                /\ ws_sending' = c
                /\ ws_todo' = ws_connections \ {c}

\* the loop of broadcast after the await of send_json on c ended, the
\* connections in `failed` having raised: the next connection is taken, or
\* the failed ones are discarded, broadcast and _update_status return, and
\* _run goes on
broadcast_continues(failed) ==
    IF ws_todo # {}
    THEN /\ \E c \in ws_todo :
                /\ ws_sending' = c
                /\ ws_todo' = ws_todo \ {c}
         /\ ws_disconnected' = failed
         /\ UNCHANGED <<ws_pc, ws_connections>>
    ELSE /\ ws_sending' = 0
         /\ ws_connections' = ws_connections \ failed
         /\ ws_disconnected' = {}
         /\ ws_pc' = (IF ws_pc = "update_running" THEN "executing" ELSE "done")
         /\ UNCHANGED ws_todo

\* the task _run starts: _update_status(workflow_id, "running") writes the
\* row and awaits manager.broadcast
RunUpdatesRunning ==
    /\ ws_pc = "created"
    /\ ws_status' = "running"
    /\ broadcast_begins("update_running", "executing")
    /\ UNCHANGED <<ws_connections, ws_stalled, ws_disconnected, ws_received>>
    /\ UNCHANGED <<gvars, cvars, lvars, bvars, rvars, fvars, pvars, kvars, avars>>

\* execute_feature_development / execute_bug_fix returned or raised:
\* _update_status(workflow_id, "completed" or "failed")
RunUpdatesFinal(status) ==
    /\ ws_pc = "executing"
    /\ ws_status' = status
    /\ broadcast_begins("update_final", "done")
    /\ UNCHANGED <<ws_connections, ws_stalled, ws_disconnected, ws_received>>
    /\ UNCHANGED <<gvars, cvars, lvars, bvars, rvars, fvars, pvars, kvars, avars>>

\* await connection.send_json(message) returns: the connection has the
\* event
SendCompletes(c) ==
    /\ ws_sending = c
    /\ c \notin ws_stalled
    /\ ws_received' = [ws_received EXCEPT ![c] = Append(@, ws_status)]
    /\ broadcast_continues(ws_disconnected)
    /\ UNCHANGED <<ws_status, ws_stalled>>
    /\ UNCHANGED <<gvars, cvars, lvars, bvars, rvars, fvars, pvars, kvars, avars>>

\* await connection.send_json(message) raises: the connection joins
\* disconnected
SendRaises(c) ==
    /\ ws_sending = c
    /\ c \notin ws_stalled
    /\ broadcast_continues(ws_disconnected \cup {c})
    /\ UNCHANGED <<ws_status, ws_stalled, ws_received>>
    /\ UNCHANGED <<gvars, cvars, lvars, bvars, rvars, fvars, pvars, kvars, avars>>

\* the task _run was created; some connections are subscribed to the
\* workflow, and the peers of some of them have stopped reading
InitBroadcast ==
    /\ ws_pc = "created"
    /\ ws_status = "pending"
    /\ ws_connections \in SUBSET Connections
    /\ ws_stalled \in SUBSET ws_connections
    /\ ws_todo = {}
    /\ ws_sending = 0
    /\ ws_disconnected = {}
    /\ ws_received = [c \in Connections |-> <<>>]

\* no workflow was started through the bridge
IdleBroadcast ==
    /\ ws_pc = "none"
    /\ ws_status = "absent"
    /\ ws_connections = {}
    /\ ws_stalled = {}
    /\ ws_todo = {}
    /\ ws_sending = 0
    /\ ws_disconnected = {}
    /\ ws_received = [c \in Connections |-> <<>>]

----------------------------------------------------------------------------
\* BaseAgent._truncate_prompt_to_fit. A prompt is known by the number of
\* its characters and by whether a truncation marker was appended to it.

CHARS_PER_TOKEN == 4

\* default of max_completion_tokens, the value the caller passes
MaxCompletionTokens == 1024

\* len("\n\n[System prompt truncated to fit context...]")
SystemMarkerChars == 45

\* len("\n\n[User prompt truncated to fit context...]")
UserMarkerChars == 43

\* bounds: max_context_tokens above max_completion_tokens, and the
\* characters of a prompt
MaxContextAbove == 3
MaxPromptChars == 13

Prompt(chars) == [chars |-> chars, marker |-> 0]

\* len(prompt)
prompt_len(p) == p.chars + p.marker

\* prompt[:budget] + marker
truncate_prompt(p, budget, marker_chars) ==
    [chars |-> Min(p.chars, budget), marker |-> marker_chars]

\* _truncate_prompt_to_fit(system_prompt, user_prompt, max_context_tokens,
\* max_completion_tokens)
truncate_prompt_to_fit(system_prompt, user_prompt, max_context_tokens, max_completion_tokens) ==
    LET available_prompt_tokens == max_context_tokens - max_completion_tokens
        available_chars == available_prompt_tokens * CHARS_PER_TOKEN
        system_chars == prompt_len(system_prompt)
        user_chars == prompt_len(user_prompt)
        total_chars == system_chars + user_chars
        \* int(available_chars * 0.3)
        system_budget == (available_chars * 3) \div 10
        user_budget == available_chars - system_budget
    IN  IF total_chars <= available_chars
        THEN [system |-> system_prompt, user |-> user_prompt,
              truncated |-> FALSE]
        ELSE [system |-> IF system_chars > system_budget
                         THEN truncate_prompt(system_prompt, system_budget,
                                              SystemMarkerChars)
                         ELSE system_prompt,
              user |-> IF user_chars > user_budget
                       THEN truncate_prompt(user_prompt, user_budget,
                                            UserMarkerChars)
                       ELSE user_prompt,
              truncated |-> TRUE]

\* The function is called.
TruncatePromptToFit ==
    /\ tp_pc = "input"
    /\ tp_result' = <<truncate_prompt_to_fit(tp_args.system_prompt,
                                             tp_args.user_prompt,
                                             tp_args.max_context_tokens,
                                             MaxCompletionTokens)>>
    /\ tp_pc' = "returned"
    /\ UNCHANGED tp_args
    /\ UNCHANGED <<gvars, cvars, lvars, bvars, rvars, fvars, wvars, kvars, avars>>

\* the prompts of a task and the context size a server reported
InitTruncate ==
    /\ \E system_chars \in 0..MaxPromptChars, user_chars \in 0..MaxPromptChars,
          above \in 1..MaxContextAbove :
            tp_args = [system_prompt |-> Prompt(system_chars),
                       user_prompt |-> Prompt(user_chars),
                       max_context_tokens |-> MaxCompletionTokens + above]
    /\ tp_pc = "input"
    /\ tp_result = <<>>

\* the function is not called
IdleTruncate ==
    /\ tp_args = [system_prompt |-> Prompt(0), user_prompt |-> Prompt(0),
                  max_context_tokens |-> MaxCompletionTokens + 1]
    /\ tp_pc = "input"
    /\ tp_result = <<>>

----------------------------------------------------------------------------
\* LLMClientPool. get_client, health_check's sweep and close_all await only
\* coroutines that never suspend (_is_client_healthy, _remove_client) and a
\* lock that is held only inside such a stretch of code, so each of them
\* runs as one step of the event loop.

\* the cache keys in use: OPENAI_API_BASE and the head of OPENAI_API_KEY
CacheKeys == {"http://127.0.0.1:8080/v1:not-needed"}

\* failure_count from which a client with a recent success is unhealthy
FailureLimit == 5

\* seconds within which a success is recent
RecentSeconds == 60

\* seconds after which a client is too old
MaxAgeSeconds == 3600

\* bounds: clients created, clock steps taken, failures recorded
MaxClients == 2
MaxPoolTicks == 3
MaxFailures == 5

\* the steps of the clock, in seconds
ShortWait == 30
LongWait == 3600

\* the clock steps taken so far
pool_ticks == (pool_now % LongWait) \div ShortWait + pool_now \div LongWait

\* the health entry get_client stores with a new client; last_check, which
\* nothing reads, and request_count and success_count, statistics that only
\* get_stats reads, are left out
new_health(t) ==
    [created_at |-> t, last_success |-> t, failure_count |-> 0]

\* _is_client_healthy(cache_key)
is_client_healthy(health, cache_key, t) ==
    IF health[cache_key] = <<>> THEN FALSE
    ELSE LET h == health[cache_key][1] IN
         IF h.failure_count >= FailureLimit /\ t - h.last_success < RecentSeconds
         THEN FALSE
         ELSE IF t - h.created_at > MaxAgeSeconds THEN FALSE
         ELSE TRUE

\* A faulty removal: the health entry stays.
remove_client_keeps_health(clients, health, cache_key) ==
    [clients |-> [clients EXCEPT ![cache_key] = 0],
     health |-> health]

\* _remove_client(cache_key)
remove_client(clients, health, cache_key) ==
    [clients |-> [clients EXCEPT ![cache_key] = 0],
     health |-> [health EXCEPT ![cache_key] = <<>>]]

\* get_client(api_base, api_key): a cached healthy client is returned; an
\* unhealthy one is removed; then, nothing being cached, a client is
\* created with a new health entry.
GetClient(cache_key) ==
    LET cached == pool_clients[cache_key] # 0
        reuse == cached /\ is_client_healthy(pool_health, cache_key, pool_now)
        after == IF cached /\ ~reuse
                 THEN remove_client(pool_clients, pool_health, cache_key)
                 ELSE [clients |-> pool_clients, health |-> pool_health]
    IN  IF reuse
        THEN /\ pool_got' = [key |-> cache_key,
                             client |-> pool_clients[cache_key],
                             turn |-> 1 - pool_got.turn]
             /\ UNCHANGED <<pool_clients, pool_health, pool_created>>
        ELSE IF after.clients[cache_key] # 0
        THEN /\ pool_got' = [key |-> cache_key,
                             client |-> after.clients[cache_key],
                             turn |-> 1 - pool_got.turn]
             /\ pool_clients' = after.clients
             /\ pool_health' = after.health
             /\ UNCHANGED pool_created
        ELSE /\ pool_created < MaxClients
             /\ pool_created' = pool_created + 1
             /\ pool_clients' = [after.clients EXCEPT ![cache_key] = pool_created']
             /\ pool_health' = [after.health EXCEPT
                                   ![cache_key] = <<new_health(pool_now)>>]
             /\ pool_got' = [key |-> cache_key, client |-> pool_created',
                             turn |-> 1 - pool_got.turn]

GetClientCall(cache_key) ==
    /\ GetClient(cache_key)
    /\ UNCHANGED pool_now
    /\ UNCHANGED <<gvars, cvars, lvars, bvars, rvars, fvars, wvars, pvars, avars>>

\* record_request(cache_key, success)
RecordRequest(cache_key, success) ==
    /\ pool_health[cache_key] # <<>>
    /\ success \/ pool_health[cache_key][1].failure_count < MaxFailures
    /\ LET h == pool_health[cache_key][1] IN
       pool_health' = [pool_health EXCEPT ![cache_key] =
          <<IF success
            THEN [h EXCEPT !.last_success = pool_now,
                           !.failure_count = IF @ > 0 THEN @ - 1 ELSE 0]
            ELSE [h EXCEPT !.failure_count = @ + 1]>>]
    /\ UNCHANGED <<pool_clients, pool_now, pool_created, pool_got>>
    /\ UNCHANGED <<gvars, cvars, lvars, bvars, rvars, fvars, wvars, pvars, avars>>

\* the keys in to_remove taken out one after the other
RECURSIVE remove_clients(_, _, _)
remove_clients(clients, health, to_remove) ==
    IF to_remove = {} THEN [clients |-> clients, health |-> health]
    ELSE LET cache_key == CHOOSE k \in to_remove : TRUE
             after == remove_client(clients, health, cache_key)
         IN  remove_clients(after.clients, after.health, to_remove \ {cache_key})

\* health_check after its sleep: the clients that are not healthy are
\* removed
HealthCheck ==
    /\ LET clients_to_remove ==
               {k \in CacheKeys : pool_clients[k] # 0
                                  /\ ~is_client_healthy(pool_health, k, pool_now)}
           after == remove_clients(pool_clients, pool_health, clients_to_remove)
       IN  /\ pool_clients' = after.clients
           /\ pool_health' = after.health
    /\ UNCHANGED <<pool_now, pool_created, pool_got>>
    /\ UNCHANGED <<gvars, cvars, lvars, bvars, rvars, fvars, wvars, pvars, avars>>

\* close_all()
CloseAll ==
    /\ LET after == remove_clients(pool_clients, pool_health,
                                   {k \in CacheKeys : pool_clients[k] # 0})
       IN  /\ pool_clients' = after.clients
           /\ pool_health' = after.health
    /\ UNCHANGED <<pool_now, pool_created, pool_got>>
    /\ UNCHANGED <<gvars, cvars, lvars, bvars, rvars, fvars, wvars, pvars, avars>>

\* time passes
PoolTick(seconds) ==
    /\ pool_ticks < MaxPoolTicks
    /\ pool_now' = pool_now + seconds
    /\ UNCHANGED <<pool_clients, pool_health, pool_created, pool_got>>
    /\ UNCHANGED <<gvars, cvars, lvars, bvars, rvars, fvars, wvars, pvars, avars>>

\* LLMClientPool.__init__
InitPool ==
    /\ pool_clients = [k \in CacheKeys |-> 0]
    /\ pool_health = [k \in CacheKeys |-> <<>>]
    /\ pool_now = 0
    /\ pool_created = 0
    /\ pool_got = [key |-> "", client |-> 0, turn |-> 0]

----------------------------------------------------------------------------
\* One agent and the run_task calls made on it. process_task awaits the
\* LLM, so calls on the same agent can be in flight together: the
\* orchestrator of the bridge is created once, with its agents, and every
\* workflow started runs in a task of its own.

\* bound: the tasks handed to the agent
MaxTasks == 3

Tasks == 1..MaxTasks

\* run_task(task) up to the await of process_task
RunTaskBegins(t) ==
    /\ agent_tasks[t].pc = "new"
    /\ agent_current_task' = t
    /\ agent_status' = "working"
    /\ agent_tasks' = [agent_tasks EXCEPT ![t].pc = "processing"]
    /\ UNCHANGED agent_task_history
    /\ UNCHANGED <<gvars, cvars, lvars, bvars, rvars, fvars, wvars, pvars, kvars>>

\* the rest of run_task, from the end of process_task to the return
run_task_ends(t, raised) ==
    /\ agent_tasks[t].pc = "processing"
    /\ agent_tasks' = [agent_tasks EXCEPT
                          ![t].pc = "returned",
                          ![t].result = IF raised THEN @ ELSE TRUE,
                          ![t].error = IF raised THEN TRUE ELSE @]
    /\ agent_status' = IF raised THEN "error" ELSE "completed"
    /\ agent_task_history' = Append(agent_task_history, t)
    /\ agent_current_task' = 0

\* process_task returned its result
ProcessTaskReturns(t) ==
    /\ run_task_ends(t, FALSE)
    /\ UNCHANGED <<gvars, cvars, lvars, bvars, rvars, fvars, wvars, pvars, kvars>>

\* process_task raised
ProcessTaskRaises(t) ==
    /\ run_task_ends(t, TRUE)
    /\ UNCHANGED <<gvars, cvars, lvars, bvars, rvars, fvars, wvars, pvars, kvars>>

\* BaseAgent.__init__, and the tasks as they are created
InitAgent ==
    /\ agent_status = "idle"
    /\ agent_current_task = 0
    /\ agent_task_history = <<>>
    /\ agent_tasks = [t \in Tasks |-> [pc |-> "new", result |-> FALSE,
                                       error |-> FALSE]]

----------------------------------------------------------------------------
\* Specifications.

NoCall == [graph |-> "none", workflow_id |-> 0, requirement |-> "",
           resumed |-> "nothing", previous |-> << >>]

InitGraph ==
    /\ pc = "idle"
    /\ state = << >>
    /\ active = {}
    /\ stepped = {}
    /\ final_state = <<>>
    /\ artifact = <<>>
    /\ returned = <<>>
    /\ executed = <<>>
    /\ runs = 0
    /\ call = NoCall
    /\ checkpoint = <<>>
    /\ backend \in {"memory", "sqlite"}
    /\ checkpointer_open = FALSE

\* One execute_* call on a fresh thread, agents free to fail.
Init ==
    /\ InitGraph
    /\ allowed = ProcessOutcomes
    /\ InitCancel
    /\ IdleLLM
    /\ InitBreaker
    /\ IdleRetry
    /\ IdleFileWriter
    /\ IdleBroadcast
    /\ IdleTruncate
    /\ InitPool
    /\ InitAgent

Next ==
    \/ ExecuteFeatureDevelopment
    \/ ExecuteBugFix
    \/ BusinessAnalystNode
    \/ DeveloperDesignNode
    \/ DeveloperImplementationNode
    \/ QaEngineerNode
    \/ DevopsEngineerNode
    \/ TechnicalWriterNode
    \/ BugAnalysisNode
    \/ BugFixNode
    \/ RegressionTestingNode
    \/ ReleaseNotesNode
    \/ Return

Spec == Init /\ [][Next]_vars

----------------------------------------------------------------------------
\* Properties of one execute_* call (specification Spec).

IsFeatureRun == call.graph = "feature_development"

\* the nodes the current call has executed, in order
ExecutedNodes == [i \in 1..Len(executed) |-> executed[i].node]

\* the task of node n ended with task.error set
TaskFailed(n) ==
    \E i \in 1..Len(executed) : executed[i].node = n /\ executed[i].outcome.raises

\* every task so far returned a completed result
AllTasksSucceeded ==
    \A i \in 1..Len(executed) : executed[i].outcome \in SuccessOutcomes

\* the first position of x in s
Pos(s, x) == CHOOSE i \in 1..Len(s) : s[i] = x /\ \A j \in 1..(i - 1) : s[j] # x

Terminal == {"completed", "failed", "cancelled"}

\* C1: a feature-development run whose tasks all succeed ends completed with
\* no errors, and completed_steps holds each of the six steps exactly once:
\* business_analyst, architecture_design, implementation, then qa_testing
\* and infrastructure in either order, then documentation last.
C1_HappyPathCompletes ==
    (pc = "returned" /\ IsFeatureRun /\ AllTasksSucceeded) =>
        LET cs == state.completed_steps
        IN  /\ state.status = "completed"
            /\ state.errors = <<>>
            /\ \A n \in FeatureNodes : Count(cs, n) = 1
            /\ Len(cs) = 6
            /\ Pos(cs, "business_analyst") < Pos(cs, "architecture_design")
            /\ Pos(cs, "architecture_design") < Pos(cs, "implementation")
            /\ Pos(cs, "implementation") < Pos(cs, "qa_testing")
            /\ Pos(cs, "implementation") < Pos(cs, "infrastructure")
            /\ cs[6] = "documentation"

\* a happy run returned in which infrastructure finished before qa_testing
C1_Witness ==
    /\ pc = "returned" /\ IsFeatureRun /\ AllTasksSucceeded
    /\ Len(state.completed_steps) = 6
    /\ state.completed_steps[4] = "infrastructure"
    /\ state.completed_steps[5] = "qa_testing"

\* C2: when the implementation task fails, or the latest implementation
\* record is failed, the run executes none of qa_testing, infrastructure,
\* documentation, ends with status failed, has implementation in
\* completed_steps and exactly one errors entry, of step implementation.
C2_ImplementationFailureStops ==
    (/\ pc = "returned" /\ IsFeatureRun
     /\ \/ TaskFailed("implementation")
        \/ LET impl == Get(state, "implementation", <<>>)
           IN  impl # <<>> /\ impl[Len(impl)].status = "failed") =>
        /\ Range(ExecutedNodes)
              \cap {"qa_testing", "infrastructure", "documentation"} = {}
        /\ state.status = "failed"
        /\ "implementation" \in Range(state.completed_steps)
        /\ Len(state.errors) = 1
        /\ state.errors[1].step = "implementation"

\* C3: documentation runs only when neither qa_testing nor infrastructure
\* recorded an error: a state that has documentation among its completed
\* steps has no errors entry of step qa_testing or infrastructure.
C3_ParallelErrorSkipsDocumentation ==
    (pc # "idle" /\ IsFeatureRun
     /\ "documentation" \in Range(state.completed_steps)) =>
        ~\E i \in 1..Len(state.errors) :
            state.errors[i].step \in {"qa_testing", "infrastructure"}

\* C4: no node executes once the status is completed, failed or cancelled:
\* every executed node started in a state whose status was not terminal.
C4_NoNodeAfterTerminalStatus ==
    \A i \in 1..Len(executed) : executed[i].status_before \notin Terminal

\* C5: within a call, once the status has left running it never changes
\* again.
C5_StatusLeavesRunningOnce ==
    [][(pc = "streaming" /\ pc' = "streaming" /\ state.status # "running")
          => state'.status = state.status]_vars

\* C6: every node whose task ended with an error has an errors entry naming
\* it (no node failure is dropped), in both graphs.
C6_TaskErrorIsRecorded ==
    \A i \in 1..Len(executed) :
        executed[i].outcome.raises =>
            \E j \in 1..Len(state.errors) :
                state.errors[j].step = executed[i].node

\* C7: the returned value and the artifact carry the final reduced state:
\* workflow_type, requirement, started_at and the accumulated
\* completed_steps, files_created and errors.
C7_ArtifactCarriesFinalState ==
    pc = "returned" =>
        /\ artifact[1].workflow_type = state.workflow_type
        /\ artifact[1].requirement = state.requirement
        /\ artifact[1].started_at = Get(state, "started_at", "")
        /\ artifact[1].completed_steps = state.completed_steps
        /\ artifact[1].files_created = state.files_created
        /\ artifact[1].errors = state.errors
        /\ returned # <<>>
        /\ Get(returned[1].update, "completed_steps", <<>>) = state.completed_steps
        /\ Get(returned[1].update, "files_created", <<>>) = state.files_created
        /\ Get(returned[1].update, "errors", <<>>) = state.errors

----------------------------------------------------------------------------
\* Resuming: a second execute_feature_development call with the thread_id
\* of a run that returned, with agents that succeed (specification
\* SpecResume).

InitResume ==
    /\ InitGraph
    /\ allowed = SuccessOutcomes
    /\ InitCancel
    /\ IdleLLM
    /\ InitBreaker
    /\ IdleRetry
    /\ IdleFileWriter
    /\ IdleBroadcast
    /\ IdleTruncate
    /\ InitPool
    /\ InitAgent

NextResume ==
    \/ Next
    \/ ResumeFeatureDevelopment

SpecResume == InitResume /\ [][NextResume]_vars

\* C9: a call on a thread whose workflow already ended terminal
\* (completed) executes no node and returns the final state of the run
\* before it: same workflow_id, requirement, completed_steps,
\* files_created, errors.
C9_ResumeOfTerminalThreadIsNoOp ==
    (runs >= 2 /\ call.previous.status \in Terminal) =>
        /\ executed = <<>>
        /\ pc = "returned" =>
            /\ state.workflow_id = call.previous.workflow_id
            /\ state.requirement = call.previous.requirement
            /\ state.completed_steps = call.previous.completed_steps
            /\ state.files_created = call.previous.files_created
            /\ state.errors = call.previous.errors

----------------------------------------------------------------------------
\* Cancellation while the execution is in flight (specification SpecCancel).

NextCancel ==
    \E w \in Workflows :
        \/ StartWorkflow(w)
        \/ ExecuteSucceeds(w)
        \/ ExecuteFails(w)
        \/ CancelWorkflow(w)
        \/ CreateWorkflow(w)
        \/ BridgeRunStarts(w)
        \/ BridgeRunSucceeds(w)
        \/ BridgeRunFails(w)
        \/ ApiCancelWorkflow(w)

SpecCancel == Init /\ [][NextCancel]_vars

\* C8: a workflow cancelled while its execution was in flight ends with
\* status cancelled: once the execution has finished, the status the
\* Orchestrator holds for it, and the status of its row, is cancelled.
C8_CancelledInFlightStaysCancelled ==
    \A w \in Workflows :
        /\ (orch_cancelled[w] /\ orch_pc[w] = "done")
              => orch_stored[w] = "cancelled"
        /\ (api_cancelled[w] /\ bridge_pc[w] = "done")
              => db_status[w] = "cancelled"

----------------------------------------------------------------------------
\* The LLM pipeline against a failing endpoint (specification SpecLLM).

InitLLMSpec ==
    /\ InitGraph
    /\ allowed = ProcessOutcomes
    /\ InitCancel
    /\ InitLLM
    /\ InitBreaker
    /\ IdleRetry
    /\ IdleFileWriter
    /\ IdleBroadcast
    /\ IdleTruncate
    /\ InitPool
    /\ InitAgent

NextLLM ==
    \/ \E api_base \in BOOLEAN : ExecuteLlmTask(api_base)
    \/ \E r \in EndpointResponses, was_truncated \in BOOLEAN :
          EndpointResponds(r, was_truncated)
    \/ Tick

SpecLLM == InitLLMSpec /\ [][NextLLM]_vars

\* C10: with failure_threshold = 2 and an endpoint that answers every
\* request with a connection error, a call of execute_llm_task (three
\* attempts allowed) contacts the endpoint exactly twice, and returns the
\* breaker-open failure because its third attempt was rejected.
C10_BreakerOpensAfterTwoContacts ==
    ( /\ llm_pc = "done"
      /\ llm_calls = 1
      /\ breaker.failure_threshold = 2
      /\ max_retries >= 3
      /\ all_connection_errors
      /\ llm_result[1].error # NotConfiguredError )
    => /\ call_contacts = 2
       /\ breaker.state = "OPEN"
       /\ llm_result[1].error = BreakerOpenError

\* C11: a connection failure of the request is retried: a call whose every
\* request met a connection error, and that the breaker has no reason to
\* cut short (max_retries <= failure_threshold), is reported as failed
\* only after max_retries requests.
C11_ConnectionFailureIsRetried ==
    ( /\ llm_pc = "done"
      /\ llm_calls = 1
      /\ max_retries <= breaker.failure_threshold
      /\ all_connection_errors
      /\ llm_result[1].error # NotConfiguredError )
    => call_contacts = max_retries

----------------------------------------------------------------------------
\* The breaker used by one caller at a time (specification SpecBreaker).

NoneInFlight == \A c \in Callers : bcalls[c] = "idle"

NextBreaker ==
    \/ \E c \in Callers : NoneInFlight /\ BreakerCall(c)
    \/ \E c \in Callers : FuncReturns(c)
    \/ \E c \in Callers : FuncRaises(c)
    \/ Tick

SpecBreaker == InitLLMSpec /\ [][NextBreaker]_vars

\* the breaker is OPEN and recovery_timeout has not passed since the last
\* failure
OpenAndCooling ==
    /\ breaker.state = "OPEN"
    /\ breaker.last_failure_time # <<>>
    /\ now - breaker.last_failure_time[1] < breaker.recovery_timeout

\* C12: a CLOSED breaker opens exactly at the failure_threshold-th
\* consecutive failure (a CLOSED breaker has seen fewer, and the step that
\* opens it is the failure that makes the streak reach the threshold, a
\* success having reset the streak); a call made while it is OPEN and
\* recovery_timeout has not passed is rejected and invokes no function.
C12_OpensAtThresholdAndRejects ==
    [][ /\ (breaker.state = "CLOSED" => streak < breaker.failure_threshold)
        /\ (breaker.state = "CLOSED" /\ breaker'.state = "OPEN")
              => (streak' = breaker.failure_threshold /\ streak' = streak + 1)
        /\ (breaker.state = "CLOSED" /\ streak' = breaker.failure_threshold)
              => breaker'.state = "OPEN"
        /\ OpenAndCooling
              => /\ \A c \in Callers :
                      bcalls'[c] = "in_flight" => bcalls[c] = "in_flight"
                 /\ last_call' # last_call => last_call' = "rejected"
      ]_vars

\* a call was rejected by a breaker that two failures in a row had opened
C12_Witness ==
    /\ breaker.failure_threshold = 2
    /\ streak = 2
    /\ OpenAndCooling
    /\ last_call = "rejected"

----------------------------------------------------------------------------
\* retry_with_exponential_backoff (specification SpecRetry).

InitRetrySpec ==
    /\ InitGraph
    /\ allowed = ProcessOutcomes
    /\ InitCancel
    /\ IdleLLM
    /\ InitBreaker
    /\ InitRetry
    /\ IdleFileWriter
    /\ IdleBroadcast
    /\ IdleTruncate
    /\ InitPool
    /\ InitAgent

NextRetry ==
    \/ RetryCall
    \/ \E o \in FuncOutcomes, draw \in JitterDraws : FuncOutcome(o, draw)
    \/ RetryWakes

SpecRetry == InitRetrySpec /\ [][NextRetry]_vars

\* every invocation before the last one raised a retriable exception
EarlierAllRetriable ==
    \A i \in 1..(Len(rt_outcomes) - 1) : rt_outcomes[i] = "retriable"

\* C13: func is invoked at most max_attempts times; the call returns at the
\* first success and invokes nothing more; a non-retriable exception is
\* re-raised by the invocation that raised it, with no sleep after it; and
\* RetryError, carrying the last cause, is raised exactly when max_attempts
\* invocations all failed with retriable exceptions.
C13_RetryInvokesAtMostMaxAttempts ==
    /\ rt_invocations <= rt_config.max_attempts
    /\ Len(rt_sleeps) <= rt_invocations
    /\ rt_pc = "done" =>
        LET n == Len(rt_outcomes)
            r == rt_result[1]
        IN  /\ rt_invocations = n
            /\ EarlierAllRetriable
            /\ r.kind = "returned" <=> (n > 0 /\ rt_outcomes[n] = "ok")
            /\ (n > 0 /\ rt_outcomes[n] = "non_retriable")
                  => (r.kind = "raised" /\ r.cause = "non_retriable"
                      /\ Len(rt_sleeps) = n - 1)
            /\ r.kind = "RetryError" <=>
                  (n = rt_config.max_attempts
                   /\ \A i \in 1..n : rt_outcomes[i] = "retriable")
            /\ (r.kind = "RetryError" /\ n > 0) => r.cause = rt_outcomes[n]

\* a call of three attempts that failed twice and then returned
C13_Witness ==
    /\ rt_pc = "done"
    /\ rt_config.max_attempts = 3
    /\ rt_outcomes = <<"retriable", "retriable", "ok">>
    /\ rt_result[1].kind = "returned"

----------------------------------------------------------------------------
\* The file extractor (specification SpecFileWriter).

InitFileWriterSpec ==
    /\ InitGraph
    /\ allowed = ProcessOutcomes
    /\ InitCancel
    /\ IdleLLM
    /\ InitBreaker
    /\ IdleRetry
    /\ InitFileWriter
    /\ IdleBroadcast
    /\ IdleTruncate
    /\ InitPool
    /\ InitAgent

NextFileWriter == ExtractFileStructure

SpecFileWriter == InitFileWriterSpec /\ [][NextFileWriter]_vars

\* the text is a back-quoted marker, a fence without a language tag, lines
\* that are no fences, and the closing fence
UntaggedFlatBlock ==
    LET lines == fw_text.lines
        n == Len(lines)
    IN  /\ fw_text.marker.quoted
        /\ lines[1] = BareFence
        /\ n >= 3
        /\ lines[n] = BareFence
        /\ \A i \in 2..(n - 1) : ~IsFence(lines[i])

\* C15: for a back-quoted File: marker followed by a fenced block without a
\* language tag, the extractor returns exactly one entry, its key the path
\* and its content the whole body of the block, the first word of the
\* first line included.
C15_UntaggedBlockKeepsFirstWord ==
    (fw_pc = "extracted" /\ UntaggedFlatBlock) =>
        fw_files = (fw_text.marker.path
                      :> SubSeq(fw_text.lines, 2, Len(fw_text.lines) - 1))

\* the depth of the fences of the block after line i: the opening fence
\* counts 1, a tagged fence below it opens, a bare one closes
FenceDepth(lines, i) ==
    1 + Cardinality({j \in 2..i : IsTagged(lines[j])})
      - Cardinality({j \in 2..i : lines[j] = BareFence})

\* the text is one file whose block holds nested blocks: every inner
\* opener is tagged, every inner closer is bare, and the last line is the
\* fence that brings the depth back to 0
NestedBlock ==
    LET lines == fw_text.lines
        n == Len(lines)
    IN  /\ n >= 4
        /\ \E j \in 2..(n - 1) : IsTagged(lines[j])
        /\ \A i \in 1..(n - 1) : FenceDepth(lines, i) > 0
        /\ FenceDepth(lines, n) = 0

\* the first inner opener of the block
FirstInnerOpener ==
    CHOOSE j \in 2..Len(fw_text.lines) :
        /\ IsTagged(fw_text.lines[j])
        /\ \A k \in 2..(j - 1) : ~IsTagged(fw_text.lines[k])

\* C16: for a file whose block holds nested blocks, the extractor returns
\* exactly one entry, for that file, and its content runs to the fence that
\* brings the depth to 0: every line from the first inner opener to the
\* line before that fence is in it, in order, at its end.
C16_NestedBlockEndsAtDepthZero ==
    (fw_pc = "extracted" /\ NestedBlock) =>
        /\ DOMAIN fw_files = {fw_text.marker.path}
        /\ LET content == fw_files[fw_text.marker.path]
               inner == SubSeq(fw_text.lines, FirstInnerOpener,
                               Len(fw_text.lines) - 1)
           IN  /\ Len(content) >= Len(inner)
               /\ SubSeq(content, Len(content) - Len(inner) + 1,
                         Len(content)) = inner

----------------------------------------------------------------------------
\* Status events and the run of a workflow (specification SpecBroadcast).

InitBroadcastSpec ==
    /\ InitGraph
    /\ allowed = ProcessOutcomes
    /\ InitCancel
    /\ IdleLLM
    /\ InitBreaker
    /\ IdleRetry
    /\ IdleFileWriter
    /\ InitBroadcast
    /\ IdleTruncate
    /\ InitPool
    /\ InitAgent

NextBroadcast ==
    \/ RunUpdatesRunning
    \/ \E status \in {"completed", "failed"} : RunUpdatesFinal(status)
    \/ \E c \in Connections : SendCompletes(c) \/ SendRaises(c)

\* the event loop runs every task that can run, the graph ends, and a
\* send to a peer that reads ends
FairBroadcast ==
    /\ WF_vars(RunUpdatesRunning)
    /\ WF_vars(\E status \in {"completed", "failed"} : RunUpdatesFinal(status))
    /\ \A c \in Connections : WF_vars(SendCompletes(c))

SpecBroadcast == InitBroadcastSpec /\ [][NextBroadcast]_vars /\ FairBroadcast

\* C17: whatever the subscribers do, a send that never completes included,
\* the workflow starts, runs and has its final status written and sent:
\* _run reaches its end.
C17_SubscribersNeverBlockTheRun == <>(ws_pc = "done")

----------------------------------------------------------------------------
\* The join before documentation (specification Spec).

\* C18: in a feature-development run, documentation executes at most once,
\* and when it executes, qa_testing and infrastructure of the same run have
\* both executed before it.
C18_DocumentationJoinsBothBranches ==
    IsFeatureRun =>
        LET ns == ExecutedNodes
        IN  /\ Count(ns, "documentation") <= 1
            /\ "documentation" \in Range(ns) =>
                  /\ "qa_testing" \in Range(ns)
                  /\ "infrastructure" \in Range(ns)
                  /\ Pos(ns, "qa_testing") < Pos(ns, "documentation")
                  /\ Pos(ns, "infrastructure") < Pos(ns, "documentation")

\* documentation ran in a run whose infrastructure task finished before its
\* qa_testing task
C18_Witness ==
    /\ IsFeatureRun
    /\ "documentation" \in Range(ExecutedNodes)
    /\ Pos(ExecutedNodes, "infrastructure") < Pos(ExecutedNodes, "qa_testing")

----------------------------------------------------------------------------
\* The reducers of the append fields (specification Spec).

\* a node finishes in this step
NodeStep == Len(executed') = Len(executed) + 1

\* C19: when a node's update is reduced into the state, every append field
\* becomes its old value followed by the entries the node returned for it,
\* in their order: the old value is a prefix of the new one and the length
\* grows by the number of returned entries.
C19_ReducerOnlyAppends ==
    [][NodeStep =>
          \A f \in AppendFields :
              LET old == Get(state, f, <<>>)
                  new == Get(state', f, <<>>)
                  delta == Get(final_state'[1].update, f, <<>>)
              IN  /\ new = old \o delta
                  /\ Len(new) = Len(old) + Len(delta)
                  /\ SubSeq(new, 1, Len(old)) = old]_vars

\* a node added an error to errors that held one already, and a step to
\* completed_steps
C19_Witness ==
    /\ final_state # <<>>
    /\ "errors" \in DOMAIN final_state[1].update
    /\ Len(state.errors) >= 2
    /\ Len(state.completed_steps) >= 2

----------------------------------------------------------------------------
\* Errors and completed steps (specification Spec).

\* C20: every entry of errors names a step that is in completed_steps: the
\* update of a failing node carries its error and its step together.
C20_ErrorStepsAreCompleted ==
    LET errors == Get(state, "errors", <<>>)
        completed_steps == Get(state, "completed_steps", <<>>)
    IN  \A i \in 1..Len(errors) : errors[i].step \in Range(completed_steps)

\* the tasks of qa_testing and infrastructure both failed
C20_Witness ==
    LET errors == Get(state, "errors", <<>>)
    IN  /\ \E i \in 1..Len(errors) : errors[i].step = "qa_testing"
        /\ \E i \in 1..Len(errors) : errors[i].step = "infrastructure"

----------------------------------------------------------------------------
\* The parallel branches (specification Spec).

ParallelNodes == {"qa_testing", "infrastructure"}

\* the shared list fields both branches append to
SharedAppendFields == {"errors", "files_created", "completed_steps"}

\* the same entries, the same number of times
SameEntries(a, b) ==
    /\ Len(a) = Len(b)
    /\ \A x \in Range(a) \cup Range(b) : Count(a, x) = Count(b, x)

\* states equal up to the order of the entries of the shared list fields
SameUpToOrder(a, b) ==
    /\ DOMAIN a = DOMAIN b
    /\ \A k \in DOMAIN a :
          IF k \in SharedAppendFields THEN SameEntries(a[k], b[k])
          ELSE a[k] = b[k]

\* C21: a step of qa_testing or infrastructure changes append fields only
\* (current_step and status keep their values), and when the second of the
\* two is reduced the state is, up to the order of the entries of errors,
\* files_created and completed_steps, the one the opposite completion order
\* gives.
C21_ParallelBranchesCommute ==
    [][(NodeStep /\ final_state'[1].node \in ParallelNodes) =>
          /\ DOMAIN final_state'[1].update \subseteq AppendFields
          /\ \A k \in DOMAIN state : k \notin AppendFields => state'[k] = state[k]
          /\ (stepped # {}) =>
                SameUpToOrder(state',
                              Reduce(Reduce(checkpoint[1],
                                            final_state'[1].update),
                                     final_state[1].update))]_vars

\* both branches were reduced, infrastructure first, each with an error
C21_Witness ==
    /\ IsFeatureRun
    /\ Len(executed) >= 2
    /\ executed[Len(executed)].node = "qa_testing"
    /\ executed[Len(executed) - 1].node = "infrastructure"
    /\ TaskFailed("qa_testing")
    /\ TaskFailed("infrastructure")

----------------------------------------------------------------------------
\* Recovery of the breaker (specification SpecBreaker).

\* a caller is admitted in this step
Admitted ==
    \E c \in Callers : bcalls[c] = "idle" /\ bcalls'[c] = "in_flight"

\* a failure is recorded in this step
FailureRecorded == breaker'.failure_count = breaker.failure_count + 1

\* C22: while OPEN and cooling the breaker stays OPEN and admits no call;
\* it leaves OPEN only for HALF_OPEN, in a step that admits a call once
\* recovery_timeout has passed since the last failure, with the half-open
\* success counter at 0; a failure in HALF_OPEN returns it to OPEN with the
\* current time as last failure time; it becomes CLOSED only from
\* HALF_OPEN, by the success that brings the counter to half_open_attempts,
\* and then failure_count is 0.
C22_BreakerRecovery ==
    [][ /\ OpenAndCooling =>
              /\ breaker'.state = "OPEN"
              /\ ~Admitted
        /\ (breaker.state = "OPEN" /\ breaker'.state # "OPEN") =>
              /\ breaker'.state = "HALF_OPEN"
              /\ breaker'.half_open_success_count = 0
              /\ now - breaker.last_failure_time[1] >= breaker.recovery_timeout
              /\ Admitted
        /\ (breaker.state = "OPEN" /\ ~OpenAndCooling /\ last_call' # last_call) =>
              /\ breaker'.state = "HALF_OPEN"
              /\ Admitted
        /\ (breaker.state = "HALF_OPEN" /\ FailureRecorded) =>
              /\ breaker'.state = "OPEN"
              /\ breaker'.last_failure_time = <<now>>
        /\ (breaker.state = "HALF_OPEN" =>
              breaker.half_open_success_count < breaker.half_open_attempts)
        /\ (breaker.state # "CLOSED" /\ breaker'.state = "CLOSED") =>
              /\ breaker.state = "HALF_OPEN"
              /\ breaker'.half_open_success_count
                    = breaker.half_open_success_count + 1
              /\ breaker'.half_open_success_count = breaker.half_open_attempts
              /\ breaker'.failure_count = 0
      ]_vars

\* a breaker that had opened was closed again by two successes in HALF_OPEN
C22_Witness ==
    /\ breaker.state = "CLOSED"
    /\ breaker.half_open_attempts = 2
    /\ breaker.half_open_success_count = 2
    /\ breaker.last_failure_time # <<>>
    /\ breaker.failure_count = 0

----------------------------------------------------------------------------
\* The breaker shared by calls in flight together (specification
\* SpecBreakerShared).

NextBreakerShared ==
    \/ \E c \in Callers : BreakerCall(c)
    \/ \E c \in Callers : FuncReturns(c)
    \/ \E c \in Callers : FuncRaises(c)
    \/ Tick

SpecBreakerShared == InitLLMSpec /\ [][NextBreakerShared]_vars

\* the fields of a breaker with the time of the last failure left out:
\* never set, or set
BreakerFields(b) ==
    [b EXCEPT !.last_failure_time = IF @ = <<>> THEN <<>> ELSE <<1>>]

\* one call made on its own, from wrapper entry to its return or raise,
\* at a time late enough for an OPEN breaker to try HALF_OPEN
call_alone_returns(b) ==
    BreakerFields(breaker_success(
        breaker_admit(b, 1 + b.recovery_timeout).breaker))

call_alone_raises(b) ==
    BreakerFields(breaker_failure(
        breaker_admit(b, 1 + b.recovery_timeout).breaker, 1))

\* the breakers that calls made one after the other can leave, when ok of
\* them return, fail of them raise and rej of them are rejected, in any
\* order and at any times
RECURSIVE SequentialBreakers(_, _, _, _)
SequentialBreakers(b0, ok, fail, rej) ==
    IF ok + fail + rej = 0 THEN {b0}
    ELSE (IF ok = 0 THEN {}
          ELSE {call_alone_returns(b) :
                    b \in SequentialBreakers(b0, ok - 1, fail, rej)})
         \cup
         (IF fail = 0 THEN {}
          ELSE {call_alone_raises(b) :
                    b \in SequentialBreakers(b0, ok, fail - 1, rej)})
         \cup
         (IF rej = 0 THEN {}
          ELSE {b \in SequentialBreakers(b0, ok, fail, rej - 1) :
                    b.state = "OPEN"})

\* C23: once the calls made through a breaker have all ended, its state,
\* failure_count, half_open_success_count and last_failure_time (set or
\* not) are those some execution of the same calls one after the other
\* leaves: as many returning, as many raising, as many rejected.
C23_SharedBreakerIsSerializable ==
    NoneInFlight =>
        BreakerFields(breaker) \in
            SequentialBreakers(
                CircuitBreaker(breaker.failure_threshold,
                               breaker.recovery_timeout,
                               breaker.half_open_attempts),
                bhistory.ok, bhistory.fail, bhistory.rej)

----------------------------------------------------------------------------
\* The sleeps of a call that fails on every attempt (specification
\* SpecRetry).

\* the call ended with RetryError after at least one attempt
FullFailure ==
    /\ rt_pc = "done"
    /\ rt_result[1].kind = "RetryError"
    /\ rt_config.max_attempts >= 1

\* the sum of a sequence of numbers
RECURSIVE Sum(_)
Sum(q) == IF q = <<>> THEN 0 ELSE q[1] + Sum(Tail(q))

\* C24: a call without jitter that fails on every attempt has slept
\* max_attempts - 1 times, the k-th time for
\* min(initial_delay * exponential_base^(k-1), max_delay) seconds (sleeps
\* are kept in half seconds), and not after its last attempt; with
\* max_attempts = 3, initial_delay = 1 and a max_delay of 2 or more the
\* sleeps add up to 3 seconds.
C24_FullFailureSleeps ==
    (FullFailure /\ ~rt_config.jitter) =>
        /\ Len(rt_sleeps) = rt_config.max_attempts - 1
        /\ \A k \in 1..Len(rt_sleeps) :
              rt_sleeps[k] =
                  2 * Min(rt_config.initial_delay * Pow(ExponentialBase, k - 1),
                          rt_config.max_delay)
        /\ (/\ rt_config.max_attempts = 3
            /\ rt_config.initial_delay = 1
            /\ rt_config.max_delay >= 2) => Sum(rt_sleeps) = 2 * 3

\* three failed attempts with initial_delay 1 and no jitter: sleeps of 1 s
\* and 2 s
C24_Witness ==
    /\ FullFailure
    /\ ~rt_config.jitter
    /\ rt_config.max_attempts = 3
    /\ rt_config.initial_delay = 1
    /\ rt_sleeps = <<2, 4>>

----------------------------------------------------------------------------
\* The prompt budget (specification SpecTruncate).

InitTruncateSpec ==
    /\ InitGraph
    /\ allowed = ProcessOutcomes
    /\ InitCancel
    /\ IdleLLM
    /\ InitBreaker
    /\ IdleRetry
    /\ IdleFileWriter
    /\ IdleBroadcast
    /\ InitTruncate
    /\ InitPool
    /\ InitAgent

NextTruncate == TruncatePromptToFit

SpecTruncate == InitTruncateSpec /\ [][NextTruncate]_vars

\* the estimated tokens of a number of characters
estimated_tokens(chars) == chars \div CHARS_PER_TOKEN

\* C25: the prompts returned have an estimated token count of at most
\* max_context_tokens minus the reserved completion tokens, and prompts
\* that fit already are returned unchanged with truncated false.
C25_TruncatedPromptsFitBudget ==
    tp_pc = "returned" =>
        LET r == tp_result[1]
            available == tp_args.max_context_tokens - MaxCompletionTokens
            given == prompt_len(tp_args.system_prompt)
                        + prompt_len(tp_args.user_prompt)
        IN  /\ estimated_tokens(prompt_len(r.system) + prompt_len(r.user))
                  <= available
            /\ given <= available * CHARS_PER_TOKEN =>
                  /\ r.system = tp_args.system_prompt
                  /\ r.user = tp_args.user_prompt
                  /\ ~r.truncated

----------------------------------------------------------------------------
\* The client pool (specification SpecPool).

InitPoolSpec ==
    /\ InitGraph
    /\ allowed = ProcessOutcomes
    /\ InitCancel
    /\ IdleLLM
    /\ InitBreaker
    /\ IdleRetry
    /\ IdleFileWriter
    /\ IdleBroadcast
    /\ IdleTruncate
    /\ InitPool
    /\ InitAgent

NextPool ==
    \/ \E k \in CacheKeys : GetClientCall(k)
    \/ \E k \in CacheKeys, success \in BOOLEAN : RecordRequest(k, success)
    \/ HealthCheck
    \/ CloseAll
    \/ \E seconds \in {ShortWait, LongWait} : PoolTick(seconds)

SpecPool == InitPoolSpec /\ [][NextPool]_vars

\* get_client is called in this step
GetClientStep == pool_got' # pool_got

\* C26: get_client for a cached key returns the cached client, and leaves
\* the pool as it is, if and only if (failure_count < 5 or the last success
\* is less than 60 s old) and the client is less than 3600 s old; otherwise
\* the client is replaced by a new one with fresh health counters.
C26_ReuseIffHealthy ==
    [][(GetClientStep /\ pool_clients[pool_got'.key] # 0) =>
          LET k == pool_got'.key
              h == pool_health[k][1]
              reusable ==
                  /\ \/ h.failure_count < FailureLimit
                     \/ pool_now - h.last_success < RecentSeconds
                  /\ pool_now - h.created_at < MaxAgeSeconds
          IN  IF reusable
              THEN /\ pool_got'.client = pool_clients[k]
                   /\ UNCHANGED <<pool_clients, pool_health>>
              ELSE /\ pool_got'.client # pool_clients[k]
                   /\ pool_clients'[k] = pool_got'.client
                   /\ pool_health'[k] = <<new_health(pool_now)>>]_vars

\* clients and client_health have the same keys
SameKeySet ==
    \A k \in CacheKeys : (pool_clients[k] # 0) <=> (pool_health[k] # <<>>)

\* C30: clients and client_health always have the same keys, and a key
\* holds at most one client, one that get_client created. Every get_client
\* returns the client the pool then holds for the key, whatever was removed
\* before; it creates at most one client, and none when the key holds a
\* client created at this instant by an earlier call, which it returns.
C30_PoolIsConsistent ==
    /\ [](SameKeySet /\ \A k \in CacheKeys : pool_clients[k] \in 0..pool_created)
    /\ [][GetClientStep =>
            LET k == pool_got'.key IN
            /\ pool_got'.client # 0
            /\ pool_got'.client = pool_clients'[k]
            /\ pool_created' \in {pool_created, pool_created + 1}
            /\ pool_created' = pool_created + 1 => pool_got'.client = pool_created'
            /\ (pool_clients[k] # 0 /\ pool_health[k] = <<new_health(pool_now)>>) =>
                   /\ pool_got'.client = pool_clients[k]
                   /\ pool_created' = pool_created]_vars

\* a second client was created after the first was removed, and a later
\* call got that same client
C30_Witness ==
    /\ pool_created = 2
    /\ pool_got.client = 2
    /\ pool_got.turn = 1
    /\ \E k \in CacheKeys : pool_clients[k] = 2 /\ pool_got.key = k

----------------------------------------------------------------------------
\* A workflow run by the OrchestratorBridge (specification SpecBridge): the
\* _run task of workflow 1 awaits execute_feature_development or
\* execute_bug_fix and records the status when the call is over.

\* _run calls execute_feature_development, or execute_bug_fix for a bug_fix
BridgeExecutes ==
    /\ bridge_pc[1] = "in_flight"
    /\ \/ ExecuteFeatureDevelopment
       \/ ExecuteBugFix

\* the call returned to _run
BridgeSeesReturn ==
    /\ pc = "returned"
    /\ BridgeRunSucceeds(1)

NextBridge ==
    \/ CreateWorkflow(1)
    \/ BridgeRunStarts(1)
    \/ BridgeExecutes
    \/ BusinessAnalystNode
    \/ DeveloperDesignNode
    \/ DeveloperImplementationNode
    \/ QaEngineerNode
    \/ DevopsEngineerNode
    \/ TechnicalWriterNode
    \/ BugAnalysisNode
    \/ BugFixNode
    \/ RegressionTestingNode
    \/ ReleaseNotesNode
    \/ Return
    \/ BridgeSeesReturn

SpecBridge == Init /\ [][NextBridge]_vars

\* C27: when the _run task of a workflow is over, the status of its row
\* agrees with the final workflow state: it is completed only if the
\* state's status is completed, and it is failed if the state's status is
\* failed.
C27_RecordedStatusAgrees ==
    bridge_pc[1] = "done" =>
        /\ db_status[1] = "completed" => state.status = "completed"
        /\ state.status = "failed" => db_status[1] = "failed"

----------------------------------------------------------------------------
\* The checkpointer of the compiled graph (specification Spec).

\* C29: while the compiled graph executes, its checkpointer is open, and
\* every checkpoint is written to an open checkpointer.
C29_CheckpointerOpenWhileExecuting ==
    /\ [](pc = "streaming" => checkpointer_open)
    /\ [][checkpoint' # checkpoint /\ pc = "streaming" => checkpointer_open]_vars

----------------------------------------------------------------------------
\* run_task calls on one agent (specification SpecAgent).

NextAgent ==
    \E t \in Tasks :
        \/ RunTaskBegins(t)
        \/ ProcessTaskReturns(t)
        \/ ProcessTaskRaises(t)

SpecAgent == Init /\ [][NextAgent]_vars

\* run_task of task t returns in this step
RunTaskReturns(t) ==
    agent_tasks[t].pc = "processing" /\ agent_tasks'[t].pc = "returned"

\* C28: while a task is processed, current_task is set and status is
\* WORKING; a task is in task_history once when its run_task has returned
\* and not before; and when run_task returns, exactly one of result and
\* error is set, with status COMPLETED for a result and ERROR for an error.
C28_AgentBookkeeping ==
    /\ [](\A t \in Tasks :
            /\ agent_tasks[t].pc = "processing" =>
                   agent_current_task # 0 /\ agent_status = "working"
            /\ Count(agent_task_history, t) =
                   (IF agent_tasks[t].pc = "returned" THEN 1 ELSE 0)
            /\ agent_tasks[t].pc = "returned" =>
                   agent_tasks[t].result # agent_tasks[t].error)
    /\ [][\A t \in Tasks : RunTaskReturns(t) =>
            agent_status' = (IF agent_tasks'[t].result THEN "completed"
                             ELSE "error")]_vars

====
